---- MODULE Spec2Model ----
(***************************************************************************)
(* A model of the multi-brand chat service (main.py, database.py): the     *)
(* pricing calculator, the user upsert, the message append, and the chat / *)
(* upload / end-session request handlers over the in-memory session        *)
(* registry and the relational store.                                      *)
(*                                                                         *)
(* Money: a per-million price is held in thousandths of a dollar           *)
(* (0.10 $ = 100), so tokens * price is a cost in units of 1e-9 $, exactly *)
(* the Decimal product (tokens / 1000000) * price.  A quantized cost is    *)
(* held in units of 1e-6 $ (micro-dollars).                                *)
(***************************************************************************)
EXTENDS Integers, Sequences, FiniteSets, Bags, TLC

VARIABLES
    models,          \* table models: model_name -> pricing row or NoRow
    cost_call,       \* the last calculate_token_cost call: arguments and result
    users,           \* table users: sequence of rows, a row's id is its index
    ucall,           \* get_or_create_user calls in flight, per caller
    last_user_call,  \* history: the last completed get_or_create_user call
    user_overlap,    \* history: some get_or_create_user call started during another
    n_user_calls,    \* number of get_or_create_user calls started
    sessions,        \* table sessions: session id -> row or NoRow
    messages,        \* table messages: sequence of rows in insertion order
    appender,        \* message appends in flight, per appender
    db_up,           \* whether the database answers
    n_outages,       \* number of database outages so far
    heap,            \* the ConversationSession objects ever constructed
    active_sessions, \* active_sessions: session id -> index into heap, or 0
    req,             \* the request handlers in flight, per slot
    budget,          \* requests still to arrive, per endpoint
    last_done,       \* history: the last completed request and what it left
    tasks,           \* the detached tasks (asyncio.create_task) not yet run
    smtp_sent,       \* per session object, the messages the SMTP server accepted
    email_logs,      \* table email_logs: per session id, the rows inserted
    user_brand_interactions \* table user_brand_interactions: total_sessions per <<user, brand>>

VARIABLES
    pool,            \* DatabasePool.pool: 0 (None) or the pool object
    pools_created,   \* the pools aiomysql.create_pool has returned
    pcall,           \* the get_connection calls, per caller
    startup,         \* lifespan's position
    ACTIVE_SESSIONS, \* the admin session table: token -> expiry, or absent
    clock,           \* datetime.now()
    areq,            \* the admin requests in flight, per thread
    admin_done,      \* history: the last completed admin request
    logged_out,      \* history: the tokens logout has removed
    admin_tokens,    \* the tokens create_session_token has returned so far
    conversation_history, \* one session's conversation_history, item by item
    window_call,     \* history: what the last chat turn passed to the agent
    user_context_phone,   \* one session's user_context.phone
    phone_call,      \* history: the last chat message handled
    md_text,         \* the text handed to format_markdown_to_html, line by line
    md_html          \* what format_markdown_to_html returned, line by line

poolVars == <<pool, pools_created, pcall, startup>>
adminVars == <<ACTIVE_SESSIONS, clock, areq, admin_done, logged_out, admin_tokens>>
windowVars == <<conversation_history, window_call>>
phoneVars == <<user_context_phone, phone_call>>
markdownVars == <<md_text, md_html>>
auxVars == <<poolVars, adminVars, windowVars, phoneVars, markdownVars>>
costVars == <<models, cost_call>>
userVars == <<ucall, last_user_call, user_overlap, n_user_calls>>
storeVars == <<sessions, messages>>
envVars == <<db_up, n_outages>>
memVars == <<heap, active_sessions>>
reqVars == <<req, budget, last_done>>
outVars == <<tasks, smtp_sent, email_logs, user_brand_interactions>>
handlerVars == <<envVars, memVars, reqVars, outVars>>
mainVars == <<costVars, users, userVars, storeVars, appender, handlerVars>>
vars == <<mainVars, auxVars>>
poolFrame == <<mainVars, adminVars, windowVars, phoneVars, markdownVars>>
adminFrame == <<mainVars, poolVars, windowVars, phoneVars, markdownVars>>
windowFrame == <<mainVars, poolVars, adminVars, phoneVars, markdownVars>>
phoneFrame == <<mainVars, poolVars, adminVars, windowVars, markdownVars>>
markdownFrame == <<mainVars, poolVars, adminVars, windowVars, phoneVars>>

NULL == "NULL"
NoRow == [absent |-> TRUE]
\* None in a column or field that holds an id; ids start at 1.
NoId == 0

(***************************************************************************)
(* Bounds                                                                  *)
(***************************************************************************)
MaxTokens == 6
MaxUserCalls == 3
NumUserCallers == 2
NumAppenders == 3
MaxSessions == 2
NumSlots == 2
MaxChats == 1
MaxUploads == 1
MaxEnds == 2
MaxOutages == 1
NumPoolCallers == 2
MaxPoolCalls == 2
MaxPools == 3
NumAdminTokens == 2
NumAdminThreads == 2
MaxClock == 3
MaxAdminRequests == 3
\* timedelta(hours=24), the clock counting half days
SESSION_TIMEOUT == 2
\* MAX_CONTEXT_MESSAGES = 10
MAX_CONTEXT_MESSAGES == 10
MaxEarlierItems == 12
MaxWindowTurns == 3
MaxNewItems == 2
MaxPhoneCalls == 3
MaxLines == 4
MaxAttempts == 2
MaxRetries == 3

(***************************************************************************)
(* 4.3 Pricing / cost calculator (database.py 540-594)                     *)
(***************************************************************************)
DefaultModel == "gpt-4.1-nano"
ModelNames == {"gpt-4.1-nano", "gpt-4o-mini", "unlisted"}
TableModels == {"gpt-4.1-nano", "gpt-4o-mini"}

\* Rows the models table may hold (prices in thousandths of a dollar per million).
PriceRows ==
    { [absent |-> FALSE, input_price_per_million |-> 100,
       cached_input_price_per_million |-> 25, output_price_per_million |-> 400,
       is_active |-> a] : a \in BOOLEAN }
    \cup
    { [absent |-> FALSE, input_price_per_million |-> 1000,
       cached_input_price_per_million |-> 500, output_price_per_million |-> 4000,
       is_active |-> TRUE] }

PricingTables == [TableModels -> {NoRow} \cup PriceRows]

\* SELECT ... FROM models WHERE model_name = %s AND is_active = TRUE
get_model_pricing(tbl, model_name) ==
    IF model_name \in DOMAIN tbl /\ ~tbl[model_name].absent /\ tbl[model_name].is_active
    THEN tbl[model_name]
    ELSE NoRow

\* Decimal.quantize(Decimal('0.000001')) under the default context
\* (ROUND_HALF_EVEN): from units of 1e-9 $ to micro-dollars.
quantize(x) ==
    LET q == x \div 1000
        r == x % 1000
    IN  IF r > 500 \/ (r = 500 /\ q % 2 = 1) THEN q + 1 ELSE q

ZeroCost == [input_cost |-> 0, output_cost |-> 0, total_cost |-> 0]

\* The arithmetic of calculate_token_cost once a pricing row is found.
cost_from_pricing(pricing, input_tokens, output_tokens, use_cached) ==
    LET input_price == IF use_cached THEN pricing.cached_input_price_per_million
                       ELSE pricing.input_price_per_million
        output_price == pricing.output_price_per_million
        input_cost == input_tokens * input_price
        output_cost == output_tokens * output_price
        total_cost == input_cost + output_cost
    IN  [input_cost |-> quantize(input_cost),
         output_cost |-> quantize(output_cost),
         total_cost |-> quantize(total_cost)]

\* Mutant: a model that is not found costs nothing (the fallback lookup is lost).
calculate_token_cost_no_fallback(tbl, input_tokens, output_tokens, model_name, use_cached) ==
    LET pricing == get_model_pricing(tbl, model_name)
    IN  IF pricing # NoRow
        THEN cost_from_pricing(pricing, input_tokens, output_tokens, use_cached)
        ELSE ZeroCost

calculate_token_cost(tbl, input_tokens, output_tokens, model_name, use_cached) ==
    LET pricing == get_model_pricing(tbl, model_name)
        fallback == get_model_pricing(tbl, DefaultModel)
    IN  IF pricing # NoRow
        THEN cost_from_pricing(pricing, input_tokens, output_tokens, use_cached)
        ELSE IF fallback # NoRow
             THEN cost_from_pricing(fallback, input_tokens, output_tokens, use_cached)
             ELSE ZeroCost

NoCall == [called |-> FALSE]

CostVarsInit ==
    /\ models \in PricingTables
    /\ cost_call = NoCall

CallCalculateTokenCost ==
    /\ \E i \in 0..MaxTokens, o \in 0..MaxTokens, m \in ModelNames, c \in BOOLEAN :
         cost_call' = [called |-> TRUE, input_tokens |-> i, output_tokens |-> o,
                       model_name |-> m, use_cached |-> c,
                       result |-> calculate_token_cost(models, i, o, m, c)]
    /\ UNCHANGED <<auxVars, models, users, userVars, storeVars, appender, handlerVars>>

(***************************************************************************)
(* 4.2 get_or_create_user (database.py 99-156)                             *)
(* The profile columns are all written the same way (COALESCE(%s, col));   *)
(* two of the nine are carried.    The schema is not among the sources: an *)
(* INSERT of an email already stored is taken to succeed.                  *)
(***************************************************************************)
UserCallers == 1..NumUserCallers
Emails == {"a@x.io", "b@x.io"}
UserFields == {"name", "phone"}
FieldValues == {NULL, "v1", "v2"}
UserData == [UserFields -> FieldValues]

IdleCall == [pc |-> "idle"]

\* SELECT id FROM users WHERE email = %s
user_ids_by_email(tbl, email) == {i \in 1..Len(tbl) : tbl[i].email = email}

\* COALESCE(%s, col)
COALESCE(value, col) == IF value # NULL THEN value ELSE col

\* Mutant: the UPDATE writes the parameters as they are (col = %s).
update_user_row_overwrite(row, user_data) ==
    [email |-> row.email, fields |-> user_data,
     total_conversations |-> row.total_conversations + 1]

\* UPDATE users SET col = COALESCE(%s, col), ..., total_conversations + 1 WHERE id = %s
update_user_row(row, user_data) ==
    [email |-> row.email,
     fields |-> [f \in UserFields |-> COALESCE(user_data[f], row.fields[f])],
     total_conversations |-> row.total_conversations + 1]

\* INSERT INTO users (...) VALUES (..., 1)
new_user_row(email, user_data) ==
    [email |-> email, fields |-> user_data, total_conversations |-> 1]

UserVarsInit ==
    /\ users = <<>>
    /\ ucall = [p \in UserCallers |-> IdleCall]
    /\ last_user_call = NoCall
    /\ user_overlap = FALSE
    /\ n_user_calls = 0

\* The call up to the SELECT's result: the row found, or 0.
UserSelect(p) ==
    /\ ucall[p].pc = "idle"
    /\ n_user_calls < MaxUserCalls
    /\ \E email \in Emails, user_data \in UserData :
       \E found \in (IF user_ids_by_email(users, email) = {} THEN {0}
                     ELSE user_ids_by_email(users, email)) :
         ucall' = [ucall EXCEPT ![p] =
                     [pc |-> "selected", email |-> email, user_data |-> user_data,
                      found |-> found,
                      pred |-> IF last_user_call.called
                               THEN [called |-> TRUE, email |-> last_user_call.email,
                                     ret |-> last_user_call.ret,
                                     row |-> last_user_call.row]
                               ELSE NoCall]]
    /\ user_overlap' = (user_overlap \/ \E q \in UserCallers : ucall[q].pc # "idle")
    /\ n_user_calls' = n_user_calls + 1
    /\ UNCHANGED <<auxVars, users, last_user_call, costVars, storeVars, appender, handlerVars>>

\* The UPDATE or the INSERT, and the return of the identifier.
UserWrite(p) ==
    /\ ucall[p].pc = "selected"
    /\ LET c == ucall[p]
           ret == IF c.found # 0 THEN c.found ELSE Len(users) + 1
           tbl == IF c.found # 0
                  THEN [users EXCEPT ![c.found] = update_user_row(@, c.user_data)]
                  ELSE Append(users, new_user_row(c.email, c.user_data))
       IN  /\ users' = tbl
           /\ last_user_call' =
                 [called |-> TRUE, email |-> c.email, user_data |-> c.user_data,
                  ret |-> ret, row |-> tbl[ret],
                  rows_for_email |-> Cardinality(user_ids_by_email(tbl, c.email)),
                  pred |-> c.pred]
    /\ ucall' = [ucall EXCEPT ![p] = IdleCall]
    /\ UNCHANGED <<auxVars, user_overlap, n_user_calls, costVars, storeVars, appender, handlerVars>>

(***************************************************************************)
(* 4.2 Sessions and messages (database.py 167-176, 295-347, 663-729)       *)
(* A session row is keyed by its session id; the surrogate id carried in   *)
(* session_db_id is in one-to-one correspondence with it and is not held   *)
(* apart.  The schema is not among the sources: messages carries no unique *)
(* key over (session_id, message_order).                                   *)
(***************************************************************************)
SessionIds == 1..MaxSessions
\* A token no session was ever created under.
UnknownToken == MaxSessions + 1
SessionTokens == SessionIds \cup {UnknownToken}
Appenders == 1..NumAppenders

\* The pricing table of a deployment that lists the default model.
DeployedModels ==
    [m \in TableModels |->
        IF m = DefaultModel
        THEN [absent |-> FALSE, input_price_per_million |-> 100,
              cached_input_price_per_million |-> 25,
              output_price_per_million |-> 400, is_active |-> TRUE]
        ELSE NoRow]

\* INSERT INTO sessions (session_id, user_id, brand_id, status, ...) VALUES (..., 'active', ...)
new_session_row(brand_id, user_id) ==
    [absent |-> FALSE, brand_id |-> brand_id, user_id |-> user_id,
     status |-> "active", email_sent |-> FALSE,
     message_count |-> 0,
     total_input_tokens |-> 0, total_output_tokens |-> 0, total_tokens |-> 0,
     input_cost |-> 0, output_cost |-> 0, total_cost |-> 0]

RECURSIVE SumSeq(_)
SumSeq(s) == IF s = <<>> THEN 0 ELSE Head(s) + SumSeq(Tail(s))

SetMax(S) == CHOOSE x \in S : \A y \in S : y <= x

session_messages(msgs, sid) == SelectSeq(msgs, LAMBDA m : m.session_id = sid)

\* SELECT COALESCE(MAX(message_order), 0) + 1 FROM messages WHERE session_id = %s
next_message_order(msgs, sid) ==
    LET rows == session_messages(msgs, sid)
    IN  IF rows = <<>> THEN 1
        ELSE SetMax({rows[i].message_order : i \in 1..Len(rows)}) + 1

\* The row add_message_with_cost and _add_message_task insert; the task
\* writes no cost columns, which then hold their default.
message_row(sid, role, input_tokens, output_tokens, cost, message_order) ==
    [session_id |-> sid, role |-> role,
     input_tokens |-> input_tokens, output_tokens |-> output_tokens,
     total_tokens |-> input_tokens + output_tokens,
     input_cost |-> cost.input_cost, output_cost |-> cost.output_cost,
     total_cost |-> cost.total_cost,
     message_order |-> message_order]

\* UPDATE sessions SET message_count = message_count + 1, ... WHERE id = %s
count_message(tbl, sid) ==
    IF tbl[sid].absent THEN tbl
    ELSE [tbl EXCEPT ![sid].message_count = @ + 1]

StoreVarsInit ==
    /\ sessions = [s \in SessionTokens |-> NoRow]
    /\ messages = <<>>

IdleAppender == [pc |-> "idle"]
AppendedSession == 1

\* The first statement of an append: the next ordinal is read.
AppendSelect(a) ==
    /\ appender[a].pc = "idle"
    /\ \E via \in {"add_message_with_cost", "_add_message_task"},
          role \in {"user", "assistant"} :
         appender' = [appender EXCEPT ![a] =
            [pc |-> "ordered", via |-> via, role |-> role,
             message_order |-> next_message_order(messages, AppendedSession)]]
    /\ UNCHANGED <<auxVars, costVars, users, userVars, storeVars, handlerVars>>

\* The second and third statements: the row is inserted with the ordinal
\* read before, and the session's message count is incremented.
AppendInsert(a) ==
    /\ appender[a].pc = "ordered"
    /\ LET c == appender[a]
           tokens == IF c.role = "user" THEN <<2, 0>> ELSE <<0, 1>>
           cost == IF c.via = "add_message_with_cost"
                   THEN calculate_token_cost(models, tokens[1], tokens[2],
                                             DefaultModel, FALSE)
                   ELSE ZeroCost
       IN  /\ messages' = Append(messages,
                 message_row(AppendedSession, c.role, tokens[1], tokens[2],
                             cost, c.message_order))
           /\ sessions' = count_message(sessions, AppendedSession)
    /\ appender' = [appender EXCEPT ![a].pc = "inserted"]
    /\ UNCHANGED <<auxVars, costVars, users, userVars, handlerVars>>

(***************************************************************************)
(* 5. The request handlers (main.py)                                       *)
(* A handler runs on the event loop: it is interleaved with other handlers *)
(* and with detached tasks only where it awaits.  Each action below is the *)
(* code from one await to the next.  A database call is one such await: it *)
(* raises when the database does not answer.                               *)
(***************************************************************************)
Slots == 1..NumSlots
BrandInputs == {"gbpseo", "other"}
\* The keys of the brands table and of AGENTS.
KnownBrands == {"gbpseo", "whitedigital"}

\* AGENTS.get(brand, gbp_agent)
AGENTS(brand) ==
    CASE brand = "gbpseo" -> "gbp_agent"
      [] brand = "whitedigital" -> "whitedigital_agent"
      [] OTHER -> "gbp_agent"
ChatEmails == {NULL, "a@x.io"}

\* SELECT * FROM brands WHERE brand_key = %s AND is_active = TRUE
get_brand_by_key(brand_key) ==
    CASE brand_key = "gbpseo" -> 1
      [] brand_key = "whitedigital" -> 2
      [] OTHER -> NoId

\* The session is returned without being put in the map.
register_nothing(reg, sid, o) == reg

\* len(BRAND_NAMES.get(brand, brand.upper()))
brand_display(brand) ==
    CASE brand = "gbpseo" -> 6
      [] brand = "whitedigital" -> 12
      [] brand = "other" -> 5

\* len of the canned fallback message of the brand
fallback_response(brand) ==
    IF brand = "whitedigital" THEN 227 + brand_display(brand)
    ELSE 217 + brand_display(brand)

\* len of the apology of chat's exception handler
apology_response(brand) ==
    IF brand = "whitedigital" THEN 184 + brand_display(brand)
    ELSE 170 + brand_display(brand)

\* The text is returned as the agent gave it.
final_response_as_is(response_text, brand) == response_text

\* if not response_text or len(response_text) < 10: the fallback message;
\* len of ChatResponse.response
final_response(response_text, brand) ==
    IF response_text = 0 \/ response_text < 10
    THEN fallback_response(brand)
    ELSE response_text

\* active_sessions[session_id] = session
register(reg, sid, o) == [reg EXCEPT ![sid] = o]

\* SELECT * FROM messages WHERE session_id = %s ORDER BY message_order ASC
get_session_messages(msgs, sid) ==
    SortSeq(session_messages(msgs, sid), LAMBDA a, b : a.message_order < b.message_order)

\* ConversationSession(...): the fields the handlers read and write; hist is
\* len(conversation_history).
new_session_object(session_id, brand, brand_id, user_id, hist) ==
    [session_id |-> session_id, brand |-> brand, brand_id |-> brand_id,
     user_id |-> user_id, email_sent |-> FALSE, hist |-> hist]

\* uuid4(): an id no session carries yet; 0 when the ids are used up.
FreshSessionId ==
    IF \E s \in SessionIds : sessions[s].absent
    THEN CHOOSE s \in SessionIds :
            sessions[s].absent /\ \A t \in SessionIds : t < s => ~sessions[t].absent
    ELSE 0

\* The session ids a client can hold: those some response has carried.
IssuedSessions == {s \in SessionIds : ~sessions[s].absent}

\* The session_id of a chat or upload request: none, one a response has
\* carried, or one that was never issued.
SessionInputs == {0} \cup IssuedSessions \cup {UnknownToken}

NoDone == [done |-> FALSE]

IdleReq ==
    [kind |-> "none", pc |-> "idle", sid_in |-> 0, brand |-> "gbpseo",
     email |-> NULL, session |-> 0, in_except |-> FALSE,
     row_brand_id |-> NoId, row_user_id |-> NoId, brand_id |-> NoId,
     attempt |-> 0, short |-> FALSE, new_items |-> 0,
     input_tokens |-> 0, output_tokens |-> 0, token_usage |-> 0,
     smtp_attempt |-> 0, email_result |-> FALSE,
     \* history of the request, read by the properties only
     alone |-> TRUE, pred |-> NoDone, db_fault |-> FALSE, faults |-> {},
     raised |-> FALSE,
     retried_short |-> FALSE, agent_calls |-> 0, created |-> 0,
     dispatched |-> 0, smtp_failures |-> 0, smtp_log |-> <<>>,
     hist_at_start |-> 0,
     sent_at_start |-> 0, live_at_start |-> FALSE, obj_at_start |-> 0,
     via |-> "none", replayed |-> <<>>, registered |-> FALSE,
     send_call |-> "none", logged |-> 0, send_changed |-> FALSE,
     first_result |-> "none", response_text |-> 0, response |-> 0,
     turn_sid |-> 0, extends |-> 0, user_rows |-> 0, asst_rows |-> 0,
     agent |-> "none"]

\* The database call the handler awaits at rec.pc has raised.
db_error(rec) == [rec EXCEPT !.db_fault = TRUE, !.faults = @ \cup {rec.pc}]

InFlight == {r \in Slots : req[r].pc # "idle"}

\* A request is taken up by the first free slot; budget.width is the number
\* of requests the clients keep in flight.
FreeSlot(r) ==
    /\ req[r].pc = "idle" /\ \A q \in Slots : q < r => req[q].pc # "idle"
    /\ Cardinality(InFlight) < budget.width

\* Another handler is in flight: neither runs alone.
MarkOverlap(r) ==
    [q \in Slots |-> IF q # r /\ req[q].pc # "idle"
                     THEN [req[q] EXCEPT !.alone = FALSE] ELSE req[q]]

PredOf(ld) == IF ld.done THEN [f \in DOMAIN ld \ {"pred"} |-> ld[f]] ELSE ld

\* What a completed request returned and what it left behind.
Summary(rec, outcome, sid_out, reg, sess, msgs) ==
    [done |-> TRUE, kind |-> rec.kind, sid_in |-> rec.sid_in,
     brand |-> rec.brand, outcome |-> outcome, session_id |-> sid_out,
     email_sent |-> rec.email_result,
     alone |-> rec.alone, db_fault |-> rec.db_fault, faults |-> rec.faults,
     raised |-> rec.raised,
     retried_short |-> rec.retried_short, agent_calls |-> rec.agent_calls,
     created |-> rec.created, dispatched |-> rec.dispatched,
     smtp_failures |-> rec.smtp_failures, smtp_log |-> rec.smtp_log,
     hist_at_start |-> rec.hist_at_start,
     sent_at_start |-> rec.sent_at_start, live_at_start |-> rec.live_at_start,
     obj_at_start |-> rec.obj_at_start, session |-> rec.session,
     via |-> rec.via, replayed |-> rec.replayed, registered |-> rec.registered,
     send_call |-> rec.send_call, logged |-> rec.logged, send_changed |-> rec.send_changed,
     first_result |-> rec.first_result, response_text |-> rec.response_text,
     response |-> rec.response,
     turn_sid |-> rec.turn_sid, extends |-> rec.extends,
     user_rows |-> rec.user_rows, asst_rows |-> rec.asst_rows, agent |-> rec.agent,
     in_registry |-> IF sid_out # 0 THEN reg[sid_out] # 0 ELSE FALSE,
     row |-> IF sid_out # 0 THEN sess[sid_out] ELSE NoRow,
     msgs |-> IF sid_out # 0 THEN session_messages(msgs, sid_out) ELSE <<>>,
     pred |-> rec.pred]

\* The handler returns: its slot is free again.
Complete(r, rec, rq, outcome, sid_out, reg, sess, msgs) ==
    /\ req' = [rq EXCEPT ![r] = IdleReq]
    /\ last_done' = Summary(rec, outcome, sid_out, reg, sess, msgs)

\* The handler goes on to its next await.
Goto(r, rec, rq, pc) ==
    /\ req' = [rq EXCEPT ![r] = [rec EXCEPT !.pc = pc]]
    /\ UNCHANGED last_done

add_message_task(sid) == [type |-> "_add_message_task", session_id |-> sid, user_id |-> NoId]
update_session_user_task(sid, user_id) ==
    [type |-> "_update_session_user_task", session_id |-> sid, user_id |-> user_id]
log_email_send_task(sid, user_id) ==
    [type |-> "_log_email_send_task", session_id |-> sid, user_id |-> user_id]

create_task(tk, t) == tk (+) SetToBag({t})

\* get_or_create_session has returned the object at index rec.session of hp:
\* the handler continues up to its next await.  chat stores the user, or
\* appends the user message and turns to the agent; chat's exception handler
\* returns the apology; upload_file appends the file message and returns.
AfterSession(r, rec0, rq, hp, reg, tk, sess, msgs) ==
    LET o == rec0.session
        sid == hp[o].session_id
        rec == [rec0 EXCEPT !.registered = (reg[sid] = o)]
    IN  /\ active_sessions' = reg
        /\ IF rec.kind = "chat" /\ rec.in_except
           THEN /\ heap' = hp
                /\ tasks' = tk
                /\ Complete(r, [rec EXCEPT !.response = apology_response(rec.brand)],
                            rq, "apology", sid, reg, sess, msgs)
           ELSE IF rec.kind = "chat" /\ rec.email # NULL
           THEN /\ heap' = hp
                /\ tasks' = tk
                /\ Goto(r, rec, rq, "user")
           ELSE IF rec.kind = "chat"
           THEN /\ heap' = [hp EXCEPT ![o].hist = @ + 1]
                /\ tasks' = tk
                /\ Goto(r, [rec EXCEPT !.turn_sid = sid], rq, "run")
           ELSE /\ heap' = [hp EXCEPT ![o].hist = @ + 1]
                /\ tasks' = create_task(tk, add_message_task(sid))
                /\ Complete(r, rec, rq, "uploaded", sid, reg, sess, msgs)

\* get_or_create_session(session_id, brand) up to its first database call;
\* update_session_activity only touches last_activity, which is not held.
Begin(r, rec, rq, hp, sess, msgs) ==
    IF rec.sid_in # 0 /\ active_sessions[rec.sid_in] # 0
    THEN AfterSession(r, [rec EXCEPT !.session = active_sessions[rec.sid_in],
                                     !.via = "registry"],
                      rq, hp, active_sessions, tasks, sess, msgs)
    ELSE /\ Goto(r, rec, rq, IF rec.sid_in # 0 THEN "gs_lookup" ELSE "gs_brand")
         /\ heap' = hp
         /\ UNCHANGED <<active_sessions, tasks>>

\* An exception reaches the handler's top level.  chat's handler calls
\* get_or_create_session once more; an exception raised inside that handler,
\* or in upload_file, which has none, is the framework's error response.
Raise(r, rec, rq, hp, sess, msgs) ==
    IF rec.kind = "chat" /\ ~rec.in_except
    THEN Begin(r, [rec EXCEPT !.in_except = TRUE, !.session = 0], rq, hp, sess, msgs)
    ELSE /\ Complete(r, rec, rq, "error500", 0, active_sessions, sess, msgs)
         /\ heap' = hp
         /\ UNCHANGED <<active_sessions, tasks>>

\* What no handler step changes.
aside == <<costVars, userVars, appender, envVars, auxVars>>

(***************************************************************************)
(* 5.1 get_or_create_session (main.py 317-367)                             *)
(***************************************************************************)
\* db_handler.get_session_by_session_id(session_id)
GsLookup(r) ==
    /\ req[r].pc = "gs_lookup"
    /\ LET rec == req[r]
       IN  IF ~db_up
           THEN Raise(r, db_error(rec), req, heap, sessions, messages)
           ELSE /\ IF sessions[rec.sid_in].absent
                   THEN Goto(r, rec, req, "gs_brand")
                   ELSE Goto(r, [rec EXCEPT
                                   !.row_brand_id = sessions[rec.sid_in].brand_id,
                                   !.row_user_id = sessions[rec.sid_in].user_id],
                             req, "gs_messages")
                /\ UNCHANGED <<heap, active_sessions, tasks>>
    /\ UNCHANGED <<aside, users, storeVars, budget, smtp_sent, email_logs,
                   user_brand_interactions>>

\* db_handler.get_session_messages(db_session['id']); the session is rebuilt
\* with the request's brand and the row's brand_id and user_id, the stored
\* messages are replayed into its history, and it is registered.
GsMessages(r) ==
    /\ req[r].pc = "gs_messages"
    /\ LET rec == req[r]
           o == Len(heap) + 1
           rows == get_session_messages(messages, rec.sid_in)
           session == new_session_object(rec.sid_in, rec.brand, rec.row_brand_id,
                          rec.row_user_id, Len(rows))
       IN  IF ~db_up
           THEN /\ Raise(r, db_error(rec), req, heap, sessions, messages)
                /\ UNCHANGED smtp_sent
           ELSE /\ AfterSession(r, [rec EXCEPT !.session = o, !.via = "row",
                                    !.replayed = [i \in 1..Len(rows) |-> rows[i].message_order]],
                                req, Append(heap, session),
                                register(active_sessions, rec.sid_in, o),
                                tasks, sessions, messages)
                /\ smtp_sent' = Append(smtp_sent, 0)
    /\ UNCHANGED <<aside, users, storeVars, budget, email_logs,
                   user_brand_interactions>>

\* db_handler.get_brand_by_key(brand)
GsBrand(r) ==
    /\ req[r].pc = "gs_brand"
    /\ LET rec == req[r]
       IN  IF ~db_up
           THEN Raise(r, db_error(rec), req, heap, sessions, messages)
           ELSE /\ Goto(r, [rec EXCEPT !.brand_id = get_brand_by_key(rec.brand)],
                        req, "gs_create")
                /\ UNCHANGED <<heap, active_sessions, tasks>>
    /\ UNCHANGED <<aside, users, storeVars, budget, smtp_sent, email_logs,
                   user_brand_interactions>>

\* db_handler.create_session(new_session.session_id, brand_id or 1); the new
\* session is registered.
GsCreate(r) ==
    /\ req[r].pc = "gs_create"
    /\ FreshSessionId # 0
    /\ LET rec == req[r]
           sid == FreshSessionId
           o == Len(heap) + 1
           session == new_session_object(sid, rec.brand, rec.brand_id, NoId, 0)
           sess == [sessions EXCEPT ![sid] =
                      new_session_row(IF rec.brand_id # NoId THEN rec.brand_id ELSE 1, NoId)]
       IN  IF ~db_up
           THEN /\ Raise(r, db_error(rec), req, heap, sessions, messages)
                /\ UNCHANGED <<sessions, smtp_sent>>
           ELSE /\ sessions' = sess
                /\ AfterSession(r, [rec EXCEPT !.session = o, !.created = @ + 1,
                                                !.via = "new"], req,
                                Append(heap, session),
                                register(active_sessions, sid, o),
                                tasks, sess, messages)
                /\ smtp_sent' = Append(smtp_sent, 0)
    /\ UNCHANGED <<aside, users, messages, budget, email_logs,
                   user_brand_interactions>>

\* A request arrives: what the registry holds for its session id.
Arrive(kind, sid, brand, email) ==
    LET o == IF sid # 0 THEN active_sessions[sid] ELSE 0
    IN  [IdleReq EXCEPT !.kind = kind, !.sid_in = sid, !.brand = brand,
                        !.email = email, !.alone = (InFlight = {}),
                        !.pred = PredOf(last_done),
                        !.live_at_start = (o # 0), !.obj_at_start = o,
                        !.hist_at_start = IF o # 0 THEN heap[o].hist ELSE 0,
                        !.sent_at_start = IF o # 0 THEN smtp_sent[o] ELSE 0]
(***************************************************************************)
(* 5.2 chat (main.py 820-1102)                                             *)
(***************************************************************************)
\* What Runner.run does within one attempt: it raises, or returns one item
\* whose text is shorter than 10 characters, or a tool call item and a full
\* response.
AgentOutcomes == {"raise", "short", "full"}
\* usage.input_tokens, usage.output_tokens of the last raw response.
AgentUsage == [input_tokens |-> 2, output_tokens |-> 1]
\* The user_data chat passes to get_or_create_user.
ChatUserData == [f \in UserFields |-> IF f = "name" THEN "v1" ELSE NULL]

ChatStart(r) ==
    /\ FreeSlot(r)
    /\ budget.chat > 0
    /\ budget' = [budget EXCEPT !.chat = @ - 1]
    /\ \E sid \in SessionInputs, brand \in budget.brands, email \in ChatEmails :
         /\ sid \notin IssuedSessions => FreshSessionId # 0
         /\ Begin(r, Arrive("chat", sid, brand, email), MarkOverlap(r),
                  heap, sessions, messages)
    /\ UNCHANGED <<aside, users, storeVars, smtp_sent, email_logs,
                   user_brand_interactions>>

\* db_handler.get_or_create_user(email, user_data); the session takes the
\* user id, the row update is detached, and the user message is appended.
ChatUser(r) ==
    /\ req[r].pc = "user"
    /\ LET rec == req[r]
           o == rec.session
           ids == user_ids_by_email(users, rec.email)
           found == IF ids = {} THEN 0 ELSE CHOOSE i \in ids : \A j \in ids : i <= j
           user_id == IF found = 0 THEN Len(users) + 1 ELSE found
       IN  IF ~db_up
           THEN /\ Raise(r, db_error(rec), req, heap, sessions, messages)
                /\ UNCHANGED users
           ELSE /\ users' = IF found = 0
                            THEN Append(users, new_user_row(rec.email, ChatUserData))
                            ELSE [users EXCEPT ![found] = update_user_row(@, ChatUserData)]
                /\ heap' = [heap EXCEPT ![o].user_id = user_id, ![o].hist = @ + 1]
                /\ tasks' = create_task(tasks,
                               update_session_user_task(heap[o].session_id, user_id))
                /\ Goto(r, [rec EXCEPT !.turn_sid = heap[o].session_id], req, "run")
                /\ UNCHANGED active_sessions
    /\ UNCHANGED <<aside, storeVars, budget, smtp_sent, email_logs,
                   user_brand_interactions>>

\* except Exception inside the attempt loop: retry once, then re-raise.
AttemptFailed(r, rec) ==
    IF rec.attempt < MaxAttempts - 1
    THEN /\ Goto(r, [rec EXCEPT !.attempt = @ + 1], req, "run")
         /\ UNCHANGED <<heap, active_sessions, tasks>>
    ELSE Raise(r, [rec EXCEPT !.raised = TRUE], req, heap, sessions, messages)

\* await Runner.run(current_agent, input=agent_input, ...)
\* len(response_text) after the cleaning, by what the agent returned: empty
\* or just under the minimum, or just at it.
ResponseLengths(outcome) ==
    CASE outcome = "short" -> {0, 9}
      [] outcome = "full" -> {10}
      [] OTHER -> {0}

\* len(response_text) < 10
too_short(text) == text < 10

ChatRun(r) ==
    /\ req[r].pc = "run"
    /\ \E outcome \in AgentOutcomes :
       \E text \in ResponseLengths(outcome) :
         LET rec == [req[r] EXCEPT !.agent_calls = @ + 1,
                                   !.agent = AGENTS(req[r].brand),
                                   !.first_result = IF @ = "none" THEN outcome ELSE @]
         IN  IF outcome = "raise"
             THEN AttemptFailed(r, rec)
             ELSE /\ Goto(r, [rec EXCEPT
                               !.short = too_short(text),
                               !.response_text = text,
                               !.new_items = IF outcome = "full" THEN 2 ELSE 1,
                               !.input_tokens = AgentUsage.input_tokens,
                               !.output_tokens = AgentUsage.output_tokens,
                               !.token_usage = AgentUsage.input_tokens + AgentUsage.output_tokens],
                          req, "cost")
                  /\ UNCHANGED <<heap, active_sessions, tasks>>
    /\ UNCHANGED <<aside, users, storeVars, budget, smtp_sent, email_logs,
                   user_brand_interactions>>

\* After the token accounting: a short response is retried once; otherwise
\* the new items join the history and the messages are saved.
AfterUsage(r, rec) ==
    /\ IF rec.short /\ rec.attempt < MaxAttempts - 1
       THEN /\ Goto(r, [rec EXCEPT !.attempt = @ + 1, !.retried_short = TRUE], req, "run")
            /\ UNCHANGED heap
       ELSE /\ Goto(r, [rec EXCEPT !.extends = @ + 1], req, "msg_user")
            /\ heap' = [heap EXCEPT ![rec.session].hist = @ + rec.new_items]
    /\ UNCHANGED <<active_sessions, tasks>>

\* except Exception as token_error: the request's token counts are zeroed.
token_error(rec) ==
    [rec EXCEPT !.input_tokens = 0, !.output_tokens = 0, !.token_usage = 0,
                !.db_fault = TRUE, !.faults = @ \cup {rec.pc}]

\* db_handler.calculate_token_cost(input_tokens, output_tokens, model_name)
ChatCost(r) ==
    /\ req[r].pc = "cost"
    /\ IF ~db_up
       THEN AfterUsage(r, token_error(req[r]))
       ELSE /\ Goto(r, req[r], req, "upd")
            /\ UNCHANGED <<heap, active_sessions, tasks>>
    /\ UNCHANGED <<aside, users, storeVars, budget, smtp_sent, email_logs,
                   user_brand_interactions>>

\* UPDATE sessions SET total_input_tokens = total_input_tokens + %s, ...
\* WHERE session_id = %s
update_session_tokens_with_cost(tbl, sid, input_tokens, output_tokens, total_tokens) ==
    LET cost == calculate_token_cost(models, input_tokens, output_tokens, DefaultModel, FALSE)
    IN  IF tbl[sid].absent THEN tbl
        ELSE [tbl EXCEPT ![sid].total_input_tokens = @ + input_tokens,
                         ![sid].total_output_tokens = @ + output_tokens,
                         ![sid].total_tokens = @ + total_tokens,
                         ![sid].input_cost = @ + cost.input_cost,
                         ![sid].output_cost = @ + cost.output_cost,
                         ![sid].total_cost = @ + cost.total_cost]

\* db_handler.update_session_tokens_with_cost(session.session_id, ...)
ChatUpd(r) ==
    /\ req[r].pc = "upd"
    /\ LET rec == req[r]
       IN  IF ~db_up
           THEN /\ AfterUsage(r, token_error(rec))
                /\ UNCHANGED sessions
           ELSE /\ sessions' = update_session_tokens_with_cost(sessions,
                                  heap[rec.session].session_id, rec.input_tokens,
                                  rec.output_tokens, rec.token_usage)
                /\ AfterUsage(r, rec)
    /\ UNCHANGED <<aside, users, messages, budget, smtp_sent, email_logs,
                   user_brand_interactions>>

\* add_message_with_cost as one transaction on the messages table.
add_message_with_cost(msgs, sid, role, input_tokens, output_tokens) ==
    Append(msgs, message_row(sid, role, input_tokens, output_tokens,
                    calculate_token_cost(models, input_tokens, output_tokens,
                                         DefaultModel, FALSE),
                    next_message_order(msgs, sid)))

\* db_handler.add_message_with_cost(session_db_id, "user", ..., input_tokens, 0, ...)
ChatMsgUser(r) ==
    /\ req[r].pc = "msg_user"
    /\ LET rec == req[r]
           sid == heap[rec.session].session_id
       IN  IF ~db_up
           THEN /\ AttemptFailed(r, db_error(rec))
                /\ UNCHANGED storeVars
           ELSE /\ messages' = add_message_with_cost(messages, sid, "user",
                                                     rec.input_tokens, 0)
                /\ sessions' = count_message(sessions, sid)
                /\ Goto(r, [rec EXCEPT !.user_rows = @ + 1], req, "msg_asst")
                /\ UNCHANGED <<heap, active_sessions, tasks>>
    /\ UNCHANGED <<aside, users, budget, smtp_sent, email_logs,
                   user_brand_interactions>>

\* db_handler.add_message_with_cost(session_db_id, "assistant", ..., 0,
\* output_tokens, ...); the loop is left and the response returned, a short
\* text being replaced by the brand's fallback text.
ChatMsgAsst(r) ==
    /\ req[r].pc = "msg_asst"
    /\ LET rec == req[r]
           sid == heap[rec.session].session_id
           msgs == add_message_with_cost(messages, sid, "assistant", 0, rec.output_tokens)
           sess == count_message(sessions, sid)
       IN  IF ~db_up
           THEN /\ AttemptFailed(r, db_error(rec))
                /\ UNCHANGED storeVars
           ELSE /\ messages' = msgs
                /\ sessions' = sess
                /\ Complete(r, [rec EXCEPT !.asst_rows = @ + 1, !.response =
                                      final_response(rec.response_text, rec.brand)],
                            req, IF rec.short THEN "fallback" ELSE "answer",
                            sid, active_sessions, sess, msgs)
                /\ UNCHANGED <<heap, active_sessions, tasks>>
    /\ UNCHANGED <<aside, users, budget, smtp_sent, email_logs,
                   user_brand_interactions>>

(***************************************************************************)
(* 5.3 upload_file (main.py 1105-1167)                                     *)
(***************************************************************************)
UploadStart(r) ==
    /\ FreeSlot(r)
    /\ budget.upload > 0
    /\ budget' = [budget EXCEPT !.upload = @ - 1]
    /\ \E sid \in SessionInputs, brand \in budget.brands :
         /\ sid \notin IssuedSessions => FreshSessionId # 0
         /\ Begin(r, Arrive("upload", sid, brand, NULL), MarkOverlap(r),
                  heap, sessions, messages)
    /\ UNCHANGED <<aside, users, storeVars, smtp_sent, email_logs,
                   user_brand_interactions>>

(***************************************************************************)
(* 5.4 end_session and send_conversation_email (main.py 1170-1277,         *)
(* 450-733)                                                                *)
(***************************************************************************)
\* What one pass of the retry loop meets at the SMTP server.
SmtpOutcomes == {"sent", "SMTPAuthenticationError", "SMTPException"}

\* A pass that raised is followed by another only after an exception other
\* than SMTPAuthenticationError, and only while attempt < max_retries - 1.
retry_any_failure(outcome, attempt) == attempt < MaxRetries - 1

retry(outcome, attempt) ==
    outcome # "SMTPAuthenticationError" /\ attempt < MaxRetries - 1

\* One pass of the retry loop of send_conversation_email, then on to the
\* next await: smtplib blocks, so the pass is not interleaved.
\* No email goes out whatever the flag says.
already_sent_ignored(session) == FALSE

\* if session.email_sent: return True
already_sent(session) == session.email_sent

SmtpTry(r, rec0, rq) ==
    \E outcome \in SmtpOutcomes :
      LET o == rec0.session
          rec == [rec0 EXCEPT !.smtp_log = Append(@, outcome),
                              !.smtp_failures = IF outcome = "sent" THEN @ ELSE @ + 1]
      IN  IF outcome = "sent"
          THEN /\ smtp_sent' = [smtp_sent EXCEPT ![o] = @ + 1]
               /\ heap' = [heap EXCEPT ![o].email_sent = TRUE]
               /\ tasks' = IF heap[o].brand_id # NoId
                           THEN create_task(tasks,
                                   log_email_send_task(heap[o].session_id, heap[o].user_id))
                           ELSE tasks
               /\ Goto(r, [rec EXCEPT !.email_result = TRUE, !.dispatched = @ + 1,
                                       !.logged = IF heap[o].brand_id # NoId THEN @ + 1 ELSE @,
                                       !.send_changed = (heap'[o] # heap[o])],
                       rq, "end_db")
          ELSE /\ IF retry(outcome, rec.smtp_attempt)
                  THEN Goto(r, [rec EXCEPT !.smtp_attempt = @ + 1], rq, "smtp_retry")
                  ELSE Goto(r, [rec EXCEPT !.email_result = FALSE], rq, "end_db")
               /\ UNCHANGED <<smtp_sent, heap, tasks>>

\* The request body is read; a session id the registry does not hold is
\* answered at once, a history of fewer than 3 items is ended without an
\* email, and otherwise send_conversation_email runs to its first await.
EndStart(r) ==
    /\ FreeSlot(r)
    /\ budget.end > 0
    /\ budget' = [budget EXCEPT !.end = @ - 1]
    /\ \E sid \in IssuedSessions :
         LET o == active_sessions[sid]
             rec == [Arrive("end", sid, "gbpseo", NULL) EXCEPT
                        !.session = o,
                        !.send_call = IF o = 0 \/ heap[o].hist < 3 THEN "none"
                                      ELSE IF heap[o].email_sent THEN "flag_set"
                                      ELSE "flag_clear"]
             rq == MarkOverlap(r)
         IN  IF o = 0
             THEN /\ Complete(r, rec, rq, "already_ended", sid, active_sessions,
                              sessions, messages)
                  /\ UNCHANGED <<smtp_sent, heap, tasks>>
             ELSE IF heap[o].hist < 3
             THEN /\ Goto(r, rec, rq, "end_db_short")
                  /\ UNCHANGED <<smtp_sent, heap, tasks>>
             ELSE IF already_sent(heap[o])
             THEN /\ Goto(r, [rec EXCEPT !.email_result = TRUE], rq, "end_db")
                  /\ UNCHANGED <<smtp_sent, heap, tasks>>
             ELSE IF heap[o].brand_id # NoId
             THEN /\ Goto(r, rec, rq, "recipients")
                  /\ UNCHANGED <<smtp_sent, heap, tasks>>
             ELSE SmtpTry(r, rec, rq)
    /\ UNCHANGED <<aside, users, storeVars, active_sessions, email_logs,
                   user_brand_interactions>>

\* The handler's except Exception: the error result, with HTTP status 200;
\* the session stays in the registry.
EndError(r, rec) ==
    Complete(r, rec, req, "error", rec.sid_in, active_sessions, sessions, messages)

\* db_handler.get_brand_recipients(session.brand_id), then the first pass of
\* the retry loop.
EndRecipients(r) ==
    /\ req[r].pc = "recipients"
    /\ IF ~db_up
       THEN /\ EndError(r, db_error(req[r]))
            /\ UNCHANGED <<smtp_sent, heap, tasks>>
       ELSE SmtpTry(r, req[r], req)
    /\ UNCHANGED <<aside, users, storeVars, active_sessions, budget, email_logs,
                   user_brand_interactions>>

\* await asyncio.sleep(retry_delay) is over: the next pass of the loop.
EndSmtpRetry(r) ==
    /\ req[r].pc = "smtp_retry"
    /\ SmtpTry(r, req[r], req)
    /\ UNCHANGED <<aside, users, storeVars, active_sessions, budget, email_logs,
                   user_brand_interactions>>

\* UPDATE sessions SET status = 'ended', email_sent = %s, ... WHERE session_id = %s
\* The row is marked ended with email_sent set whatever the call passed.
end_session_row_sent(tbl, sid, email_sent) ==
    IF tbl[sid].absent THEN tbl
    ELSE [tbl EXCEPT ![sid].status = "ended", ![sid].email_sent = TRUE]

end_session_row(tbl, sid, email_sent) ==
    IF tbl[sid].absent THEN tbl
    ELSE [tbl EXCEPT ![sid].status = "ended", ![sid].email_sent = email_sent]

\* end_session without its del active_sessions[session_id].
EndFinishKeepsSession(r, rec, sess, outcome) ==
    /\ Complete(r, rec, req, outcome, rec.sid_in, active_sessions, sess, messages)
    /\ UNCHANGED active_sessions

\* del active_sessions[session_id] and the success result; the statement
\* raises KeyError when the entry is gone, which the handler's except turns
\* into the error result.
EndFinish(r, rec, sess, outcome) ==
    IF active_sessions[rec.sid_in] = 0
    THEN /\ Complete(r, rec, req, "error", rec.sid_in, active_sessions, sess, messages)
         /\ UNCHANGED active_sessions
    ELSE /\ active_sessions' = [active_sessions EXCEPT ![rec.sid_in] = 0]
         /\ Complete(r, rec, req, outcome, rec.sid_in, active_sessions', sess, messages)

\* db_handler.end_session(session.session_id, False) on the short path.
EndDbShort(r) ==
    /\ req[r].pc = "end_db_short"
    /\ LET rec == req[r]
           sess == end_session_row(sessions, rec.sid_in, FALSE)
       IN  IF ~db_up
           THEN /\ EndError(r, db_error(rec))
                /\ UNCHANGED <<sessions, active_sessions>>
           ELSE /\ sessions' = sess
                /\ EndFinish(r, rec, sess, "insufficient")
    /\ UNCHANGED <<aside, users, messages, heap, budget, outVars>>

\* db_handler.end_session(session.session_id, email_sent), then on to the
\* statistics the session's user_id and brand_id call for.
EndDb(r) ==
    /\ req[r].pc = "end_db"
    /\ LET rec == req[r]
           o == rec.session
           sess == end_session_row(sessions, rec.sid_in, rec.email_result)
       IN  IF ~db_up
           THEN /\ EndError(r, db_error(rec))
                /\ UNCHANGED <<sessions, active_sessions>>
           ELSE /\ sessions' = sess
                /\ IF heap[o].user_id # NoId /\ heap[o].brand_id # NoId
                   THEN Goto(r, rec, req, "interaction") /\ UNCHANGED active_sessions
                   ELSE IF heap[o].brand_id # NoId
                   THEN Goto(r, rec, req, "analytics") /\ UNCHANGED active_sessions
                   ELSE EndFinish(r, rec, sess, "ended")
    /\ UNCHANGED <<aside, users, messages, heap, budget, outVars>>

\* db_handler.update_user_brand_interaction_with_cost(user_id, brand_id, ...):
\* INSERT ... ON DUPLICATE KEY UPDATE total_sessions = total_sessions + 1
EndInteraction(r) ==
    /\ req[r].pc = "interaction"
    /\ LET rec == req[r]
           o == rec.session
           key == <<heap[o].user_id, heap[o].brand_id>>
       IN  IF ~db_up
           THEN /\ EndError(r, db_error(rec))
                /\ UNCHANGED user_brand_interactions
           ELSE /\ user_brand_interactions' =
                     IF key \in DOMAIN user_brand_interactions
                     THEN [user_brand_interactions EXCEPT ![key] = @ + 1]
                     ELSE [k \in DOMAIN user_brand_interactions \cup {key} |->
                             IF k = key THEN 1 ELSE user_brand_interactions[k]]
                /\ Goto(r, rec, req, "analytics")
    /\ UNCHANGED <<aside, users, storeVars, memVars, budget, tasks, smtp_sent,
                   email_logs>>

\* db_handler.update_daily_analytics_with_cost(session.brand_id): the day's
\* summary row is recomputed from the sessions table and is not held apart.
EndAnalytics(r) ==
    /\ req[r].pc = "analytics"
    /\ IF ~db_up
       THEN /\ EndError(r, db_error(req[r]))
            /\ UNCHANGED active_sessions
       ELSE EndFinish(r, req[r], sessions, "ended")
    /\ UNCHANGED <<aside, users, storeVars, heap, budget, outVars>>

(***************************************************************************)
(* 5.5 Detached tasks (database.py 246-256, 295-347, 380-405): each runs   *)
(* at some later turn of the event loop and swallows its own exception.    *)
(***************************************************************************)
PendingTasks(type) == {t \in BagToSet(tasks) : t.type = type}

\* _add_message_task: the upload's message row, without token or cost columns.
AddMessageTask ==
    /\ \E t \in PendingTasks("_add_message_task") :
         /\ tasks' = tasks (-) SetToBag({t})
         /\ IF db_up
            THEN /\ messages' = Append(messages,
                       message_row(t.session_id, "user", 0, 0, ZeroCost,
                                   next_message_order(messages, t.session_id)))
                 /\ sessions' = count_message(sessions, t.session_id)
            ELSE UNCHANGED storeVars
    /\ UNCHANGED <<aside, users, memVars, reqVars, smtp_sent, email_logs,
                   user_brand_interactions>>

\* _update_session_user_task: UPDATE sessions SET user_id = %s WHERE id = %s
UpdateSessionUserTask ==
    /\ \E t \in PendingTasks("_update_session_user_task") :
         /\ tasks' = tasks (-) SetToBag({t})
         /\ sessions' = IF db_up /\ ~sessions[t.session_id].absent
                        THEN [sessions EXCEPT ![t.session_id].user_id = t.user_id]
                        ELSE sessions
    /\ UNCHANGED <<aside, users, messages, memVars, reqVars, smtp_sent, email_logs,
                   user_brand_interactions>>

\* _log_email_send_task: INSERT INTO email_logs (...)
LogEmailSendTask ==
    /\ \E t \in PendingTasks("_log_email_send_task") :
         /\ tasks' = tasks (-) SetToBag({t})
         /\ email_logs' = IF db_up
                          THEN [email_logs EXCEPT ![t.session_id] = @ + 1]
                          ELSE email_logs
    /\ UNCHANGED <<aside, users, storeVars, memVars, reqVars, smtp_sent,
                   user_brand_interactions>>

(***************************************************************************)
(* 5.6 The database server                                                 *)
(***************************************************************************)
\* The database stops answering: pool.acquire() and cursor.execute raise.
DbFail ==
    /\ db_up /\ n_outages < MaxOutages
    /\ db_up' = FALSE
    /\ n_outages' = n_outages + 1
    /\ UNCHANGED <<auxVars, costVars, users, userVars, storeVars, appender, memVars, reqVars, outVars>>

DbRecover ==
    /\ ~db_up
    /\ db_up' = TRUE
    /\ UNCHANGED <<auxVars, n_outages, costVars, users, userVars, storeVars, appender, memVars,
                   reqVars, outVars>>

NoRequests ==
    [chat |-> 0, upload |-> 0, end |-> 0, width |-> NumSlots, brands |-> BrandInputs]

\* The requests a run receives: a conversation that is ended twice, or a
\* conversation with an upload that is ended once.
Workloads ==
    {[chat |-> MaxChats, upload |-> 0, end |-> MaxEnds, width |-> NumSlots,
     brands |-> BrandInputs],
     [chat |-> MaxChats, upload |-> MaxUploads, end |-> MaxEnds - 1, width |-> NumSlots,
     brands |-> BrandInputs]}

\* The requests a run with a failing database receives: a conversation
\* with an upload, a conversation that is ended, or uploads around an end.
OutageWorkloads ==
    {[chat |-> MaxChats, upload |-> MaxUploads, end |-> 0, width |-> NumSlots,
     brands |-> BrandInputs],
     [chat |-> MaxChats, upload |-> 0, end |-> MaxEnds - 1, width |-> NumSlots,
     brands |-> BrandInputs],
     [chat |-> 0, upload |-> MaxUploads + 1, end |-> MaxEnds - 1, width |-> NumSlots,
     brands |-> BrandInputs]}

\* The requests of one client that waits for each response: two chats on
\* conversations that are ended twice.
SerialWorkloads ==
    {[chat |-> MaxChats + 1, upload |-> 0, end |-> MaxEnds, width |-> 1,
      brands |-> BrandInputs]}

\* The requests of one client that names either of the two brands: two chats
\* and an end.
BrandWorkloads ==
    {[chat |-> MaxChats + 1, upload |-> 0, end |-> MaxEnds - 1, width |-> 1,
      brands |-> KnownBrands]}

HandlerVarsInit ==
    /\ db_up = TRUE
    /\ n_outages = 0
    /\ heap = <<>>
    /\ active_sessions = [s \in SessionTokens |-> 0]
    /\ req = [r \in Slots |-> IdleReq]
    /\ budget = NoRequests
    /\ last_done = NoDone
    /\ tasks = EmptyBag
    /\ smtp_sent = <<>>
    /\ email_logs = [s \in SessionIds |-> 0]
    /\ user_brand_interactions = [k \in {} |-> 0]

(***************************************************************************)
(* 9. The connection pool (database.py, DatabasePool)                      *)
(* get_connection tests self.pool and awaits create_pool when it is None;  *)
(* aiomysql.create_pool connects to the server, so the caller is suspended *)
(* between the test and the assignment.  lifespan awaits create_pool at    *)
(* startup without a test.                                                 *)
(***************************************************************************)
PoolCallers == 1..NumPoolCallers

IdlePoolCall == [pc |-> "idle", conn_pool |-> 0, calls |-> 0, found_none |-> FALSE]

PoolIdle ==
    /\ pool = 0
    /\ pools_created = 0
    /\ pcall = [c \in PoolCallers |-> IdlePoolCall]
    /\ startup = "up"

\* self.pool = await aiomysql.create_pool(...): the assignment, once the
\* driver has returned a new pool object.
create_pool == pools_created + 1

\* async with self.pool.acquire() as conn
acquire(c, p) == [pcall EXCEPT ![c].pc = "holding", ![c].conn_pool = p]

\* get_connection up to its first await.
GetConnection(c) ==
    /\ pcall[c].pc = "idle"
    /\ pcall[c].calls < MaxPoolCalls
    /\ IF pool = 0
       THEN pcall' = [pcall EXCEPT ![c].pc = "creating", ![c].found_none = TRUE]
       ELSE pcall' = [acquire(c, pool) EXCEPT ![c].found_none = FALSE]
    /\ UNCHANGED <<pool, pools_created, startup>>
    /\ UNCHANGED poolFrame

\* create_pool returns in get_connection, which goes on to acquire.
CreatePoolReturns(c) ==
    /\ pcall[c].pc = "creating"
    /\ pools_created < MaxPools
    /\ pool' = create_pool
    /\ pools_created' = pools_created + 1
    /\ pcall' = acquire(c, pool')
    /\ UNCHANGED startup
    /\ UNCHANGED poolFrame

\* create_pool raises in get_connection: the caller's operation fails.
CreatePoolRaises(c) ==
    /\ pcall[c].pc = "creating"
    /\ pcall' = [pcall EXCEPT ![c].pc = "idle", ![c].calls = @ + 1]
    /\ UNCHANGED <<pool, pools_created, startup>>
    /\ UNCHANGED poolFrame

\* The scoped block ends: the connection goes back to its pool.
Release(c) ==
    /\ pcall[c].pc = "holding"
    /\ pcall' = [pcall EXCEPT ![c].pc = "idle", ![c].calls = @ + 1]
    /\ UNCHANGED <<pool, pools_created, startup>>
    /\ UNCHANGED poolFrame

\* lifespan: await db_pool.create_pool()
LifespanStarts ==
    /\ startup = "pending"
    /\ startup' = "creating"
    /\ UNCHANGED <<pool, pools_created, pcall>>
    /\ UNCHANGED poolFrame

LifespanCreated ==
    /\ startup = "creating"
    /\ pools_created < MaxPools
    /\ pool' = create_pool
    /\ pools_created' = pools_created + 1
    /\ startup' = "up"
    /\ UNCHANGED pcall
    /\ UNCHANGED poolFrame

(***************************************************************************)
(* 10. The admin session gate (main.py)                                    *)
(* verify_session is a synchronous dependency: the framework runs it in a  *)
(* worker thread, so two of them, or one and logout, interleave between    *)
(* their statements.                                                       *)
(***************************************************************************)
AdminTokens == 1..NumAdminTokens
\* A cookie value create_session_token never returned.
UnknownCookie == NumAdminTokens + 1
AdminThreads == 1..NumAdminThreads

NoAdminSession == [present |-> FALSE]
NoAdminDone == [done |-> FALSE]

IdleAdminReq ==
    [pc |-> "idle", kind |-> "none", cookie |-> 0, session_data |-> NoAdminSession,
     present_at_start |-> FALSE, expired_at_start |-> FALSE, logged_out_at_start |-> FALSE]

AdminIdle ==
    /\ ACTIVE_SESSIONS = [k \in AdminTokens \cup {UnknownCookie} |-> NoAdminSession]
    /\ clock = 0
    /\ areq = [t \in AdminThreads |-> IdleAdminReq]
    /\ admin_done = NoAdminDone
    /\ logged_out = {}
    /\ admin_tokens = 0

\* The dashboard_session cookie of a request: none, a token a login has
\* set, or a value that never was a token.
Cookies == {0, UnknownCookie} \cup 1..admin_tokens

\* datetime.now() > session_data["expires"]
expired(session_data, now) == now > session_data.expires


AdminRequestsLeft == admin_done.done => admin_done.n < MaxAdminRequests

AdminSummary(rec, outcome, table) ==
    [done |-> TRUE, kind |-> rec.kind, cookie |-> rec.cookie, outcome |-> outcome,
     clock |-> clock, session_data |-> rec.session_data,
     present_at_start |-> rec.present_at_start,
     expired_at_start |-> rec.expired_at_start,
     logged_out_at_start |-> rec.logged_out_at_start,
     in_table_after |-> IF rec.cookie = 0 THEN FALSE ELSE table[rec.cookie].present,
     n |-> IF admin_done.done THEN admin_done.n + 1 ELSE 1]

AdminComplete(t, rec, outcome, table) ==
    /\ areq' = [areq EXCEPT ![t] = IdleAdminReq]
    /\ admin_done' = AdminSummary(rec, outcome, table)

AdminArrive(kind, cookie) ==
    [IdleAdminReq EXCEPT
        !.kind = kind, !.cookie = cookie,
        !.present_at_start = (cookie # 0 /\ ACTIVE_SESSIONS[cookie].present),
        !.expired_at_start = (cookie # 0 /\ ACTIVE_SESSIONS[cookie].present
                              /\ expired(ACTIVE_SESSIONS[cookie], clock)),
        !.logged_out_at_start = (cookie \in logged_out)]

\* verify_session: if not session_token or session_token not in ACTIVE_SESSIONS
VerifyCheck(t) ==
    /\ areq[t].pc = "idle"
    /\ AdminRequestsLeft
    /\ \E cookie \in Cookies :
         LET rec == AdminArrive("gated", cookie)
         IN  IF cookie = 0 \/ ~ACTIVE_SESSIONS[cookie].present
             THEN AdminComplete(t, rec, "redirect303", ACTIVE_SESSIONS)
             ELSE /\ areq' = [areq EXCEPT ![t] = [rec EXCEPT !.pc = "load"]]
                  /\ UNCHANGED admin_done
    /\ UNCHANGED <<ACTIVE_SESSIONS, clock, logged_out, admin_tokens>>
    /\ UNCHANGED adminFrame

\* session_data = ACTIVE_SESSIONS[session_token]: KeyError when the key has
\* gone since the test.
VerifyLoad(t) ==
    /\ areq[t].pc = "load"
    /\ IF ~ACTIVE_SESSIONS[areq[t].cookie].present
       THEN AdminComplete(t, areq[t], "error500", ACTIVE_SESSIONS)
       ELSE /\ areq' = [areq EXCEPT ![t].pc = "expiry",
                                    ![t].session_data = ACTIVE_SESSIONS[areq[t].cookie]]
            /\ UNCHANGED admin_done
    /\ UNCHANGED <<ACTIVE_SESSIONS, clock, logged_out, admin_tokens>>
    /\ UNCHANGED adminFrame

\* if datetime.now() > session_data["expires"]; otherwise the dependency
\* returns and the endpoint's handler runs.
VerifyExpiry(t) ==
    /\ areq[t].pc = "expiry"
    /\ IF expired(areq[t].session_data, clock)
       THEN /\ areq' = [areq EXCEPT ![t].pc = "del"]
            /\ UNCHANGED admin_done
       ELSE AdminComplete(t, areq[t], "handler", ACTIVE_SESSIONS)
    /\ UNCHANGED <<ACTIVE_SESSIONS, clock, logged_out, admin_tokens>>
    /\ UNCHANGED adminFrame

\* del ACTIVE_SESSIONS[session_token], then the 303 of http_exception_handler;
\* KeyError when the key has gone.
VerifyDel(t) ==
    /\ areq[t].pc = "del"
    /\ IF ~ACTIVE_SESSIONS[areq[t].cookie].present
       THEN /\ AdminComplete(t, areq[t], "error500", ACTIVE_SESSIONS)
            /\ UNCHANGED ACTIVE_SESSIONS
       ELSE /\ ACTIVE_SESSIONS' = [ACTIVE_SESSIONS EXCEPT ![areq[t].cookie] = NoAdminSession]
            /\ AdminComplete(t, areq[t], "redirect303", ACTIVE_SESSIONS')
    /\ UNCHANGED <<clock, logged_out, admin_tokens>>
    /\ UNCHANGED adminFrame

\* login_submit: the credentials match and a new token enters the table, or
\* they do not and the login page is shown again.
LoginSubmit(t) ==
    /\ areq[t].pc = "idle"
    /\ AdminRequestsLeft
    /\ \E ok \in BOOLEAN :
         /\ ok => admin_tokens < NumAdminTokens
         /\ IF ok
            THEN LET session_token == admin_tokens + 1
                 IN  /\ admin_tokens' = session_token
                     /\ ACTIVE_SESSIONS' = [ACTIVE_SESSIONS EXCEPT ![session_token] =
                           [present |-> TRUE, expires |-> clock + SESSION_TIMEOUT]]
                     /\ AdminComplete(t, [AdminArrive("login", 0) EXCEPT !.cookie = session_token],
                                      "redirect303", ACTIVE_SESSIONS')
            ELSE /\ AdminComplete(t, AdminArrive("login", 0), "login_page", ACTIVE_SESSIONS)
                 /\ UNCHANGED <<ACTIVE_SESSIONS, admin_tokens>>
    /\ UNCHANGED <<clock, logged_out>>
    /\ UNCHANGED adminFrame

\* logout: if session_token and session_token in ACTIVE_SESSIONS
LogoutCheck(t) ==
    /\ areq[t].pc = "idle"
    /\ AdminRequestsLeft
    /\ \E cookie \in Cookies :
         LET rec == AdminArrive("logout", cookie)
         IN  IF cookie = 0 \/ ~ACTIVE_SESSIONS[cookie].present
             THEN AdminComplete(t, rec, "redirect303", ACTIVE_SESSIONS)
             ELSE /\ areq' = [areq EXCEPT ![t] = [rec EXCEPT !.pc = "logout_del"]]
                  /\ UNCHANGED admin_done
    /\ UNCHANGED <<ACTIVE_SESSIONS, clock, logged_out, admin_tokens>>
    /\ UNCHANGED adminFrame

\* logout: del ACTIVE_SESSIONS[session_token]
LogoutDel(t) ==
    /\ areq[t].pc = "logout_del"
    /\ IF ~ACTIVE_SESSIONS[areq[t].cookie].present
       THEN /\ AdminComplete(t, areq[t], "error500", ACTIVE_SESSIONS)
            /\ UNCHANGED <<ACTIVE_SESSIONS, logged_out>>
       ELSE /\ ACTIVE_SESSIONS' = [ACTIVE_SESSIONS EXCEPT ![areq[t].cookie] = NoAdminSession]
            /\ logged_out' = logged_out \cup {areq[t].cookie}
            /\ AdminComplete(t, areq[t], "redirect303", ACTIVE_SESSIONS')
    /\ UNCHANGED <<clock, admin_tokens>>
    /\ UNCHANGED adminFrame

\* Time passes.
Tick ==
    /\ clock < MaxClock
    /\ clock' = clock + 1
    /\ UNCHANGED <<ACTIVE_SESSIONS, areq, admin_done, logged_out, admin_tokens>>
    /\ UNCHANGED adminFrame

(***************************************************************************)
(* 11. The history window of chat (main.py)                                *)
(***************************************************************************)
NoWindowCall == [done |-> FALSE]

\* A session whose history holds the items 1..n of earlier turns.
earlier_history(n) ==
    [i \in 1..n |-> [role |-> IF i % 2 = 1 THEN "user" ELSE "assistant", item |-> i]]

WindowIdle ==
    /\ conversation_history = <<>>
    /\ window_call = NoWindowCall

\* The first items of the history instead of the last.
agent_input_oldest(history) ==
    IF Len(history) > MAX_CONTEXT_MESSAGES
    THEN SubSeq(history, 1, MAX_CONTEXT_MESSAGES)
    ELSE history

\* conversation_history[-MAX_CONTEXT_MESSAGES:] when the history is longer
\* than MAX_CONTEXT_MESSAGES, conversation_history.copy() otherwise
agent_input(history) ==
    IF Len(history) > MAX_CONTEXT_MESSAGES
    THEN SubSeq(history, Len(history) - MAX_CONTEXT_MESSAGES + 1, Len(history))
    ELSE history

WindowTurns == IF window_call.done THEN window_call.turn ELSE 0

\* chat: the user message joins the history and the agent's input is cut.
WindowAppend ==
    /\ window_call.done => window_call.pc = "returned"
    /\ WindowTurns < MaxWindowTurns
    /\ LET user_message == [role |-> "user", item |-> Len(conversation_history) + 1]
       IN  /\ conversation_history' = Append(conversation_history, user_message)
           /\ window_call' = [done |-> TRUE, pc |-> "run", turn |-> WindowTurns + 1,
                              before |-> conversation_history,
                              user_message |-> user_message,
                              agent_input |-> agent_input(conversation_history')]
    /\ UNCHANGED windowFrame

\* chat: Runner.run has returned and conversation_history.extend(...) takes
\* the new items; none when the agent raised on both attempts.
WindowExtend ==
    /\ window_call.done /\ window_call.pc = "run"
    /\ \E k \in 0..MaxNewItems :
         conversation_history' = conversation_history \o
            [i \in 1..k |-> [role |-> "assistant", item |-> Len(conversation_history) + i]]
    /\ window_call' = [window_call EXCEPT !.pc = "returned"]
    /\ UNCHANGED windowFrame

(***************************************************************************)
(* 12. Phone extraction (main.py, extract_phone_from_message)              *)
(* A message is its sequence of characters.  The pattern is matched as re  *)
(* matches it: every element lists the positions it can end at, the        *)
(* preferred first, and the match is the first position of the last one.   *)
(***************************************************************************)
DigitChars == {"0", "1", "2", "3", "4", "5", "6", "7", "8", "9"}
SepChars == {"-", ".", " "}

NoPhoneCall == [done |-> FALSE]

PhoneIdle ==
    /\ user_context_phone = NULL
    /\ phone_call = NoPhoneCall

RECURSIVE OptEnds(_, _, _)
\* c? from each position of P
OptEnds(msg, cls, P) ==
    IF P = <<>> THEN <<>>
    ELSE LET p == Head(P)
         IN  (IF p <= Len(msg) /\ msg[p] \in cls THEN <<p + 1, p>> ELSE <<p>>)
             \o OptEnds(msg, cls, Tail(P))

RECURSIVE RunLength(_, _, _, _)
\* The characters of cls from position p on, hi at most.
RunLength(msg, cls, p, hi) ==
    IF hi = 0 \/ p > Len(msg) \/ msg[p] \notin cls THEN 0
    ELSE 1 + RunLength(msg, cls, p + 1, hi - 1)

RECURSIVE RepEnds(_, _, _, _, _)
\* c{lo,hi} from each position of P, greedy
RepEnds(msg, cls, lo, hi, P) ==
    IF P = <<>> THEN <<>>
    ELSE LET p == Head(P)
             k == RunLength(msg, cls, p, hi)
         IN  (IF k >= lo THEN [i \in 1..(k - lo + 1) |-> p + k - i + 1] ELSE <<>>)
             \o RepEnds(msg, cls, lo, hi, Tail(P))

\* (?:\+?\d{1,3}[-.\s]?)?
PrefixEnds(msg, p) ==
    OptEnds(msg, SepChars, RepEnds(msg, DigitChars, 1, 3, OptEnds(msg, {"+"}, <<p>>)))
    \o <<p>>

\* \(?\d{3}\)?[-.\s]?\d{3}[-.\s]?\d{4,5} after the prefix
PatternEnds(msg, p) ==
    RepEnds(msg, DigitChars, 4, 5,
      OptEnds(msg, SepChars,
        RepEnds(msg, DigitChars, 3, 3,
          OptEnds(msg, SepChars,
            OptEnds(msg, {")"},
              RepEnds(msg, DigitChars, 3, 3,
                OptEnds(msg, {"("}, PrefixEnds(msg, p))))))))

RECURSIVE findall(_, _)
\* re.findall(phone_pattern, message), scanning from position p
findall(msg, p) ==
    IF p > Len(msg) THEN <<>>
    ELSE LET ends == PatternEnds(msg, p)
         IN  IF ends = <<>> THEN findall(msg, p + 1)
             ELSE <<SubSeq(msg, p, Head(ends) - 1)>> \o findall(msg, Head(ends))

\* validate_phone: digits = re.sub(r'\D', '', phone); 10 <= len(digits) <= 15
validate_phone(phone) ==
    LET digits == Cardinality({i \in 1..Len(phone) : phone[i] \in DigitChars})
    IN  10 <= digits /\ digits <= 15

\* extract_phone_from_message: the phone the session holds afterwards.
extract_phone_from_message(message, phone) ==
    LET phone_matches == findall(message, 1)
        valid == {i \in 1..Len(phone_matches) : validate_phone(phone_matches[i])}
    IN  IF valid = {} THEN phone
        ELSE phone_matches[CHOOSE i \in valid : \A j \in valid : i <= j]

ChatMessages ==
    {<<"+", "9", "1", " ", "9", "8", "7", "6", "5", " ", "4", "3", "2", "1", "0">>,
     <<"h", "i">>,
     <<"9", "8", "7", "6", "5", "4", "3", "2", "1", "0">>,
     <<"c", "a", "l", "l", " ", "5", "5", "5", "-", "1", "2", "3", "-", "4", "5", "6", "7", " ", "n", "o", "w">>,
     <<"+", "1", " ", "(", "5", "5", "5", ")", " ", "1", "2", "3", "-", "4", "5", "6", "7", "8">>,
     <<"i", "d", " ", "1", "2", "3", "4", "5", "6", "7", "8", "9">>,
     <<"5", "5", "5", "1", "2", "3", "4", "5", "6", "7", " ", "o", "r", " ", "9", "9", "9", "8", "8", "8", "7", "7", "7", "7">>,
     <<"1", "2", "3", "4", "5", " ", "6", "7", "8">>}

\* user_info.phone of the request
InfoPhones == {NULL, <<"5", "5", "5", "0", "0", "0", "1", "1", "1", "1">>}

PhoneCalls == IF phone_call.done THEN phone_call.n ELSE 0

\* chat, from the user_info phone to extract_phone_from_message.
ChatPhone ==
    /\ PhoneCalls < MaxPhoneCalls
    /\ \E message \in ChatMessages, info \in InfoPhones :
         LET known == IF info # NULL THEN info ELSE user_context_phone
         IN  /\ user_context_phone' = extract_phone_from_message(message, known)
             /\ phone_call' = [done |-> TRUE, n |-> PhoneCalls + 1, message |-> message,
                               known |-> known, matches |-> findall(message, 1),
                               phone |-> user_context_phone']
    /\ UNCHANGED phoneFrame

(***************************************************************************)
(* 13. format_markdown_to_html (main.py)                                   *)
(* A text is the sequence of its lines (text.split('\n')), a line the      *)
(* sequence of its characters; an inserted tag is one element.  The result *)
(* is the sequence of formatted_lines before the join.                     *)
(***************************************************************************)
Whitespace == {" "}

\* Nothing was returned yet.
NoHtml == <<[tag |-> "pending"]>>

MarkdownIdle ==
    /\ md_text = <<>>
    /\ md_html = NoHtml

RECURSIVE lstrip(_)
lstrip(s) == IF s # <<>> /\ Head(s) \in Whitespace THEN lstrip(Tail(s)) ELSE s

RECURSIVE rstrip(_)
rstrip(s) ==
    IF s # <<>> /\ s[Len(s)] \in Whitespace THEN rstrip(SubSeq(s, 1, Len(s) - 1)) ELSE s

\* line.strip()
strip(s) == rstrip(lstrip(s))

\* s.startswith(prefix)
startswith(s, prefix) == Len(s) >= Len(prefix) /\ SubSeq(s, 1, Len(prefix)) = prefix

\* The length of the match of ^\d+\.\s at the start of s, 0 without a match.
ol_marker(s) ==
    LET k == RunLength(s, DigitChars, 1, Len(s))
    IN  IF k >= 1 /\ Len(s) >= k + 2 /\ s[k + 1] = "." /\ s[k + 2] \in Whitespace
        THEN k + 2 ELSE 0

Stars(s, i) == i + 1 <= Len(s) /\ s[i] = "*" /\ s[i + 1] = "*"

RECURSIVE bold_from(_, _)
\* re.sub(r'\*\*(.+?)\*\*', r'<strong>\1</strong>', ...) from position i of a
\* line: the leftmost opening with the nearest closing after one character
\* or more.
bold_from(s, i) ==
    IF i > Len(s) THEN <<>>
    ELSE LET closings == {j \in (i + 3)..Len(s) : Stars(s, j)}
         IN  IF Stars(s, i) /\ closings # {}
             THEN LET j == CHOOSE c \in closings : \A d \in closings : c <= d
                  IN  <<"<strong>">> \o SubSeq(s, i + 2, j - 1) \o <<"</strong>">>
                      \o bold_from(s, j + 2)
             ELSE <<s[i]>> \o bold_from(s, i + 1)

bold(s) == bold_from(s, 1)

\* The list is left open.
close_list_never(in_list, list_type) == <<>>

\* if in_list: formatted_lines.append(f'</{list_type}>')
close_list(in_list, list_type) ==
    IF in_list THEN <<[tag |-> "/" \o list_type]>> ELSE <<>>

\* if not in_list or list_type != <type>: close the open list, open this one
open_list(in_list, list_type, type) ==
    IF ~in_list \/ list_type # type
    THEN close_list(in_list, list_type) \o <<[tag |-> type]>>
    ELSE <<>>

RECURSIVE format_lines(_, _, _)
\* The loop over the lines and the closing after it.
format_lines(lines, in_list, list_type) ==
    IF lines = <<>> THEN close_list(in_list, list_type)
    ELSE LET stripped == strip(Head(lines))
         IN  IF startswith(stripped, <<"-", " ">>) \/ startswith(stripped, <<"*", " ">>)
             THEN open_list(in_list, list_type, "ul")
                  \o <<[tag |-> "li", text |-> SubSeq(stripped, 3, Len(stripped))]>>
                  \o format_lines(Tail(lines), TRUE, "ul")
             ELSE IF ol_marker(stripped) > 0
             THEN open_list(in_list, list_type, "ol")
                  \o <<[tag |-> "li",
                        text |-> SubSeq(stripped, ol_marker(stripped) + 1, Len(stripped))]>>
                  \o format_lines(Tail(lines), TRUE, "ol")
             ELSE close_list(in_list, list_type)
                  \o (IF stripped # <<>> THEN <<[tag |-> "p", text |-> stripped]>>
                      ELSE <<[tag |-> "br"]>>)
                  \o format_lines(Tail(lines), FALSE, NULL)

\* format_markdown_to_html(text); the bold pattern does not cross a line end.
format_markdown_to_html(text) ==
    format_lines([i \in 1..Len(text) |-> bold(text[i])], FALSE, NULL)

MarkdownLines ==
    {<<"*", "*", "x", "*", "*", " ", "a", "n", "d">>,
     <<"-", " ", "a">>,
     <<"-", " ", "b">>,
     <<>>,
     <<"*", " ", "c">>,
     <<"1", ".", " ", "d">>,
     <<"1", "2", ".", " ", "e">>,
     <<" ", " ", "-", " ", "f">>,
     <<"-", "g">>,
     <<"2", ".", "h">>,
     <<"a", " ", "*", "*", "b">>}

\* The text of the claim's example: '**x** and', '- a', '- b', ''
ExampleText == <<<<"*", "*", "x", "*", "*", " ", "a", "n", "d">>, <<"-", " ", "a">>, <<"-", " ", "b">>, <<>> >>

FormatMarkdown ==
    /\ md_html = NoHtml
    /\ md_html' = format_markdown_to_html(md_text)
    /\ UNCHANGED md_text
    /\ UNCHANGED markdownFrame

AuxIdle == PoolIdle /\ AdminIdle /\ WindowIdle /\ PhoneIdle /\ MarkdownIdle

(***************************************************************************)
(* Specifications                                                          *)
(***************************************************************************)
\* The service at rest.
MainIdle ==
    /\ models = DeployedModels
    /\ cost_call = NoCall
    /\ UserVarsInit /\ StoreVarsInit
    /\ appender = [a \in Appenders |-> IdleAppender]
    /\ HandlerVarsInit

CostInit ==
    /\ CostVarsInit /\ UserVarsInit /\ StoreVarsInit
    /\ appender = [a \in Appenders |-> IdleAppender]
    /\ HandlerVarsInit
    /\ AuxIdle

CostNext == CallCalculateTokenCost

CostSpec == CostInit /\ [][CostNext]_vars

UserInit ==
    /\ models = DeployedModels
    /\ cost_call = NoCall
    /\ UserVarsInit /\ StoreVarsInit
    /\ appender = [a \in Appenders |-> IdleAppender]
    /\ HandlerVarsInit
    /\ AuxIdle

UserNext == \E p \in UserCallers : UserSelect(p) \/ UserWrite(p)

UserSpec == UserInit /\ [][UserNext]_vars

\* Concurrent appends to one session that exists.
MsgInit ==
    /\ models = DeployedModels
    /\ cost_call = NoCall
    /\ UserVarsInit
    /\ sessions = [s \in SessionTokens |->
                     IF s = AppendedSession THEN new_session_row(1, NoId) ELSE NoRow]
    /\ messages = <<>>
    /\ appender = [a \in Appenders |-> IdleAppender]
    /\ HandlerVarsInit
    /\ AuxIdle

MsgNext == \E a \in Appenders : AppendSelect(a) \/ AppendInsert(a)

MsgSpec == MsgInit /\ [][MsgNext]_vars


\* The service with a database that answers throughout.
ServiceInit(workloads) ==
    /\ models = DeployedModels
    /\ cost_call = NoCall
    /\ UserVarsInit /\ StoreVarsInit
    /\ appender = [a \in Appenders |-> IdleAppender]
    /\ db_up = TRUE
    /\ n_outages = 0
    /\ heap = <<>>
    /\ active_sessions = [s \in SessionTokens |-> 0]
    /\ req = [r \in Slots |-> IdleReq]
    /\ budget \in workloads
    /\ last_done = NoDone
    /\ tasks = EmptyBag
    /\ smtp_sent = <<>>
    /\ email_logs = [s \in SessionIds |-> 0]
    /\ user_brand_interactions = [k \in {} |-> 0]
    /\ AuxIdle

SteadyInit == ServiceInit(Workloads)

SteadyNext ==
    \/ \E r \in Slots :
          \/ ChatStart(r) \/ GsLookup(r) \/ GsMessages(r) \/ GsBrand(r) \/ GsCreate(r)
          \/ ChatUser(r) \/ ChatRun(r) \/ ChatCost(r) \/ ChatUpd(r)
          \/ ChatMsgUser(r) \/ ChatMsgAsst(r)
          \/ UploadStart(r)
          \/ EndStart(r) \/ EndRecipients(r) \/ EndSmtpRetry(r) \/ EndDbShort(r)
          \/ EndDb(r) \/ EndInteraction(r) \/ EndAnalytics(r)
    \/ AddMessageTask \/ UpdateSessionUserTask \/ LogEmailSendTask

SteadySpec == SteadyInit /\ [][SteadyNext]_vars

\* The service under one client whose requests follow one another.
SerialInit == ServiceInit(SerialWorkloads)

SerialNext ==
    \/ \E r \in Slots :
          \/ ChatStart(r) \/ GsLookup(r) \/ GsMessages(r) \/ GsBrand(r) \/ GsCreate(r)
          \/ ChatUser(r) \/ ChatRun(r) \/ ChatCost(r) \/ ChatUpd(r)
          \/ ChatMsgUser(r) \/ ChatMsgAsst(r)
          \/ EndStart(r) \/ EndRecipients(r) \/ EndSmtpRetry(r) \/ EndDbShort(r)
          \/ EndDb(r) \/ EndInteraction(r) \/ EndAnalytics(r)
    \/ UpdateSessionUserTask \/ LogEmailSendTask

SerialSpec == SerialInit /\ [][SerialNext]_vars

\* One client that names either brand, requests one after another.
BrandInit == ServiceInit(BrandWorkloads)

BrandSpec == BrandInit /\ [][SerialNext]_vars

\* The service with a database that may stop answering.
Init == ServiceInit(OutageWorkloads)

Next == SteadyNext \/ DbFail \/ DbRecover

Spec == Init /\ [][Next]_vars

\* get_connection calls racing with startup.
PoolInit ==
    /\ pool = 0
    /\ pools_created = 0
    /\ pcall = [c \in PoolCallers |-> IdlePoolCall]
    /\ startup = "pending"
    /\ AdminIdle /\ WindowIdle /\ PhoneIdle /\ MarkdownIdle /\ MainIdle

PoolNext ==
    \/ \E c \in PoolCallers :
          GetConnection(c) \/ CreatePoolReturns(c) \/ CreatePoolRaises(c) \/ Release(c)
    \/ LifespanStarts \/ LifespanCreated

PoolSpec == PoolInit /\ [][PoolNext]_vars

\* The admin session gate.
AdminInit ==
    /\ AdminIdle
    /\ PoolIdle /\ WindowIdle /\ PhoneIdle /\ MarkdownIdle /\ MainIdle

AdminNext ==
    \/ \E t \in AdminThreads :
          \/ VerifyCheck(t) \/ VerifyLoad(t) \/ VerifyExpiry(t) \/ VerifyDel(t)
          \/ LoginSubmit(t) \/ LogoutCheck(t) \/ LogoutDel(t)
    \/ Tick

AdminSpec == AdminInit /\ [][AdminNext]_vars

\* The history window of chat turns on one session.
WindowInit ==
    /\ \E n \in 0..MaxEarlierItems : conversation_history = earlier_history(n)
    /\ window_call = NoWindowCall
    /\ PoolIdle /\ AdminIdle /\ PhoneIdle /\ MarkdownIdle /\ MainIdle

WindowNext == WindowAppend \/ WindowExtend

WindowSpec == WindowInit /\ [][WindowNext]_vars

\* Phone extraction over chat messages on one session.
PhoneInit ==
    /\ PhoneIdle
    /\ PoolIdle /\ AdminIdle /\ WindowIdle /\ MarkdownIdle /\ MainIdle

PhoneNext == ChatPhone

PhoneSpec == PhoneInit /\ [][PhoneNext]_vars

\* format_markdown_to_html over texts of a few lines.
MarkdownInit ==
    /\ \E n \in 0..MaxLines : md_text \in [1..n -> MarkdownLines]
    /\ md_html = NoHtml
    /\ PoolIdle /\ AdminIdle /\ WindowIdle /\ PhoneIdle /\ MainIdle

MarkdownNext == FormatMarkdown

MarkdownSpec == MarkdownInit /\ [][MarkdownNext]_vars
(***************************************************************************)
(* Properties                                                              *)
(***************************************************************************)

\* round(x, 6) of a cost held in units of 1e-9 $: the nearest micro-dollar,
\* a tie going to the even one.
Round6(x) ==
    LET lo == x \div 1000
    IN  IF 2 * (x - 1000 * lo) > 1000 THEN lo + 1
        ELSE IF 2 * (x - 1000 * lo) < 1000 THEN lo
        ELSE IF lo % 2 = 0 THEN lo ELSE lo + 1

\* The pricing row a call with a known model is charged at.
CallPricing == get_model_pricing(models, cost_call.model_name)
CallInputPrice == IF cost_call.use_cached THEN CallPricing.cached_input_price_per_million
                  ELSE CallPricing.input_price_per_million

\* C4: once N concurrent appends to one session have completed, the rows
\* inserted carry the ordinals 1..N, each exactly once.
C4_OrdinalsDistinctGapless ==
    (\A a \in Appenders : appender[a].pc = "inserted")
    => \A k \in 1..NumAppenders :
         Cardinality({i \in 1..Len(messages) :
                        /\ messages[i].session_id = AppendedSession
                        /\ messages[i].message_order = k}) = 1

\* C6: of two get_or_create_user calls in succession with the same email, the
\* second leaves exactly one row for the email, returns the identifier the
\* first returned, stores each of its non-null fields and keeps, for each of
\* its null fields, what the first call left stored.
C6_SecondCallMerges ==
    (/\ last_user_call.called
     /\ ~user_overlap
     /\ last_user_call.pred.called
     /\ last_user_call.pred.email = last_user_call.email)
    => /\ last_user_call.rows_for_email = 1
       /\ last_user_call.ret = last_user_call.pred.ret
       /\ \A f \in UserFields :
            last_user_call.row.fields[f] =
              IF last_user_call.user_data[f] # NULL
              THEN last_user_call.user_data[f]
              ELSE last_user_call.pred.row.fields[f]

\* A second call in succession that overwrites one stored field with another
\* value and passes null for another stored field.
C6_Witness ==
    /\ last_user_call.called
    /\ ~user_overlap
    /\ last_user_call.pred.called
    /\ last_user_call.pred.email = last_user_call.email
    /\ \E f, g \in UserFields :
         /\ last_user_call.user_data[f] = NULL
         /\ last_user_call.pred.row.fields[f] # NULL
         /\ last_user_call.user_data[g] # NULL
         /\ last_user_call.pred.row.fields[g] # NULL
         /\ last_user_call.user_data[g] # last_user_call.pred.row.fields[g]

\* C7: for a model with an active pricing row, the input and output costs are
\* the token counts times the per-million prices rounded to 6 decimal places,
\* and the total cost is exactly the sum of the two.
C7_TotalIsSumOfParts ==
    (cost_call.called /\ CallPricing # NoRow)
    => /\ cost_call.result.input_cost = Round6(cost_call.input_tokens * CallInputPrice)
       /\ cost_call.result.output_cost =
            Round6(cost_call.output_tokens * CallPricing.output_price_per_million)
       /\ cost_call.result.total_cost =
            cost_call.result.input_cost + cost_call.result.output_cost

\* C8: a model without an active pricing row is charged at the default
\* model's prices, and at zero when the default model has no active row either.
C8_UnknownModelFallsBack ==
    (cost_call.called /\ CallPricing = NoRow)
    => IF ~models[DefaultModel].absent /\ models[DefaultModel].is_active
       THEN cost_call.result =
              cost_from_pricing(models[DefaultModel], cost_call.input_tokens,
                                cost_call.output_tokens, cost_call.use_cached)
       ELSE cost_call.result = ZeroCost

\* An unlisted model charged a non-zero cost at the default model's prices.
C8_Witness ==
    /\ cost_call.called
    /\ cost_call.model_name = "unlisted"
    /\ ~models[DefaultModel].absent /\ models[DefaultModel].is_active
    /\ cost_call.result.total_cost > 0


\* The message rows of session sid and the sum of one of their columns.
RowsOf(sid) == session_messages(messages, sid)
ColumnSum(rows, col) == SumSeq([i \in 1..Len(rows) |-> rows[i][col]])

\* C1: whatever the interleaving of the end-session requests for a session,
\* the SMTP server accepts at most one message for it.
C1_AtMostOneDispatch == \A o \in 1..Len(heap) : smtp_sent[o] <= 1

\* The last two completed requests are end-session requests for one session
\* id, each run with no other request in flight, the first of them on a
\* registered session of at least 3 history items with no failing SMTP pass.
EndedTwiceInSuccession ==
    /\ last_done.done /\ last_done.kind = "end" /\ last_done.alone
    /\ last_done.pred.done /\ last_done.pred.kind = "end" /\ last_done.pred.alone
    /\ last_done.pred.sid_in = last_done.sid_in
    /\ last_done.pred.live_at_start
    /\ last_done.pred.hist_at_start >= 3
    /\ last_done.pred.smtp_failures = 0

\* C2: of two end-session calls in succession for one session id, the first
\* dispatches exactly one email, marks the row ended and removes the session
\* from the registry; the second returns 'Session already ended' with
\* email_sent false and dispatches nothing.
C2_EndTwiceInSuccession ==
    EndedTwiceInSuccession =>
        /\ last_done.pred.dispatched = 1
        /\ last_done.pred.row.status = "ended"
        /\ ~last_done.pred.in_registry
        /\ ~last_done.live_at_start
        /\ last_done.outcome = "already_ended"
        /\ ~last_done.email_sent
        /\ last_done.dispatched = 0

C2_Witness == EndedTwiceInSuccession /\ last_done.pred.row.email_sent

\* C3: when no request is in flight, every session row's total_tokens is the
\* sum of total_tokens over the session's message rows.
C3_SessionTokensAreMessageTokens ==
    InFlight = {} =>
        \A s \in SessionIds :
            ~sessions[s].absent =>
                sessions[s].total_tokens = ColumnSum(RowsOf(s), "total_tokens")

\* C5: a chat request without a session id that ran alone and returned a
\* response has created one session and left exactly a user message with
\* ordinal 1 and an assistant message with ordinal 2, and the session's
\* token and cost counters are the sums over the two messages.
C5_NewChatPersistsAndAccounts ==
    (/\ last_done.done /\ last_done.kind = "chat" /\ last_done.sid_in = 0
     /\ last_done.alone /\ last_done.outcome \in {"answer", "fallback"}) =>
        LET row == last_done.row
            msgs == last_done.msgs
        IN  /\ last_done.created = 1
            /\ ~row.absent
            /\ row.brand_id = (IF get_brand_by_key(last_done.brand) # NoId
                               THEN get_brand_by_key(last_done.brand) ELSE 1)
            /\ Len(msgs) = 2
            /\ msgs[1].role = "user" /\ msgs[1].message_order = 1
            /\ msgs[2].role = "assistant" /\ msgs[2].message_order = 2
            /\ row.total_input_tokens = ColumnSum(msgs, "input_tokens")
            /\ row.total_output_tokens = ColumnSum(msgs, "output_tokens")
            /\ row.total_tokens = ColumnSum(msgs, "total_tokens")
            /\ row.input_cost = ColumnSum(msgs, "input_cost")
            /\ row.output_cost = ColumnSum(msgs, "output_cost")
            /\ row.total_cost = ColumnSum(msgs, "total_cost")

\* C9: a chat request in which an exception left the attempt loop returns
\* the apology with the id of a session the registry holds.
C9_ExceptionYieldsApology ==
    (last_done.done /\ last_done.kind = "chat" /\ last_done.raised) =>
        /\ last_done.outcome = "apology"
        /\ last_done.in_registry

\* C10: an end-session request whose SMTP passes all failed, and whose
\* database calls were answered, has marked the row ended with email_sent
\* false, removed the session from the registry and returned success.
C10_FailedEmailStillEnds ==
    (/\ last_done.done /\ last_done.kind = "end"
     /\ last_done.smtp_failures > 0 /\ last_done.dispatched = 0
     /\ ~last_done.db_fault) =>
        /\ last_done.outcome = "ended"
        /\ ~last_done.email_sent
        /\ last_done.row.status = "ended"
        /\ ~last_done.row.email_sent
        /\ ~last_done.in_registry

\* The SMTP passes of the calls of send_conversation_email under way, and of
\* the call of the last completed request.
SmtpLogs ==
    {req[r].smtp_log : r \in Slots} \cup (IF last_done.done THEN {last_done.smtp_log} ELSE {})
\* The logs of the calls that have returned.
ReturnedSmtpLogs ==
    {req[r].smtp_log : r \in {q \in Slots : req[q].pc \in {"end_db", "interaction", "analytics"}}}
        \cup (IF last_done.done THEN {last_done.smtp_log} ELSE {})

\* C11: a call of send_conversation_email makes at most 3 SMTP passes; only
\* a failure other than an authentication failure is followed by another
\* pass, and the call returns only after a sent pass, an authentication
\* failure or the third pass.
C11_AtMostThreeSmtpAttempts ==
    /\ \A L \in SmtpLogs :
         /\ Len(L) <= 3
         /\ \A i \in 1..(Len(L) - 1) : L[i] = "SMTPException"
    /\ \A L \in ReturnedSmtpLogs :
         L # <<>> => \/ L[Len(L)] \in {"sent", "SMTPAuthenticationError"}
                     \/ Len(L) = 3

C11_Witness ==
    /\ last_done.done
    /\ last_done.smtp_log = <<"SMTPException", "SMTPException", "SMTPException">>

\* The awaits of the writes off the critical path: the token and cost
\* accounting of chat, and the statistics of end_session.
NonCriticalWrites == {"cost", "upd", "interaction", "analytics"}

\* C12: a request that ran alone, in which no agent attempt was abandoned and
\* only writes off the critical path failed, returns what it returns when
\* they succeed, and an end-session request has removed the session.
C12_NonCriticalFailureSwallowed ==
    (/\ last_done.done /\ last_done.kind \in {"chat", "end"}
     /\ last_done.alone /\ ~last_done.raised
     /\ last_done.faults # {} /\ last_done.faults \subseteq NonCriticalWrites) =>
        /\ last_done.outcome \in {"answer", "fallback", "ended"}
        /\ last_done.kind = "end" => ~last_done.in_registry

Nondecreasing(s) == \A i \in 1..(Len(s) - 1) : s[i] <= s[i + 1]

\* C13: get_or_create_session resolves in this order: a supplied token that is
\* in active_sessions returns that same object; otherwise a supplied token
\* with a stored row is rebuilt from the row, its messages replayed in
\* message_order; otherwise a new session with a fresh token is persisted.
\* In all three cases the returned object is in active_sessions under its own
\* session_id when the call returns.
C13_ResolutionOrder ==
    (last_done.done /\ last_done.outcome \in {"answer", "fallback", "uploaded"}) =>
        /\ last_done.registered
        /\ IF last_done.live_at_start
           THEN /\ last_done.via = "registry"
                /\ last_done.session = last_done.obj_at_start
                /\ last_done.session_id = last_done.sid_in
                /\ last_done.created = 0
           ELSE IF last_done.sid_in \in SessionIds
           THEN /\ last_done.via = "row"
                /\ Nondecreasing(last_done.replayed)
                /\ last_done.session_id = last_done.sid_in
                /\ last_done.created = 0
           ELSE /\ last_done.via = "new"
                /\ last_done.created = 1
                /\ last_done.session_id \in SessionIds \ {last_done.sid_in}
                /\ ~last_done.row.absent

C13_Witness ==
    /\ last_done.done /\ last_done.kind = "upload" /\ last_done.outcome = "uploaded"
    /\ last_done.via = "row" /\ Len(last_done.replayed) >= 2
    /\ last_done.registered

C13_WitnessUnknownToken ==
    /\ last_done.done /\ last_done.sid_in = UnknownToken
    /\ last_done.via = "new" /\ last_done.registered

\* C14: the connection pool is created at most once per process: when several
\* get_connection calls run before any pool exists, exactly one pool is
\* created and every caller holds a connection of that pool.
C14_PoolCreatedOnce ==
    /\ pools_created <= 1
    /\ \A c \in PoolCallers : pcall[c].pc = "holding" => pcall[c].conn_pool = 1

AdminRejected == {"redirect303"}

\* C15: an admin-gated endpoint runs its handler only if the request's cookie
\* is a key of ACTIVE_SESSIONS whose expiry has not passed; a missing, unknown
\* or expired token yields the 303 redirect to /admin/login, an expired token
\* is removed from the table, and a token removed by logout is rejected by
\* every later request.
C15_AdminGate ==
    (admin_done.done /\ admin_done.kind = "gated") =>
        /\ admin_done.outcome = "handler" =>
              /\ admin_done.present_at_start
              /\ admin_done.clock <= admin_done.session_data.expires
        /\ (~admin_done.present_at_start \/ admin_done.expired_at_start) =>
              /\ admin_done.outcome \in AdminRejected
              /\ ~admin_done.in_table_after
        /\ admin_done.logged_out_at_start => admin_done.outcome \in AdminRejected

\* C19: the history passed to the agent is the last MAX_CONTEXT_MESSAGES items
\* of the session's conversation history when it has more, the whole history
\* otherwise; it always ends with the current user turn; and the session's
\* conversation history is never shortened by a chat request.
C19_AgentInputWindow ==
    /\ [](window_call.done =>
            LET h == Append(window_call.before, window_call.user_message)
                a == window_call.agent_input
                n == IF Len(h) > 10 THEN 10 ELSE Len(h)
            IN  /\ Len(a) = n
                /\ \A i \in 1..n : a[i] = h[Len(h) - n + i]
                /\ a[Len(a)] = window_call.user_message
                /\ SubSeq(conversation_history, 1, Len(h)) = h)
    /\ [][/\ Len(conversation_history') >= Len(conversation_history)
          /\ SubSeq(conversation_history', 1, Len(conversation_history)) = conversation_history]_vars

C19_Witness ==
    /\ window_call.done /\ window_call.pc = "returned"
    /\ Len(window_call.before) >= 12
    /\ Len(window_call.agent_input) = 10
    /\ Len(conversation_history) >= 15

C19_WitnessShort ==
    /\ window_call.done
    /\ Len(window_call.before) = 9
    /\ Len(window_call.agent_input) = 10

\* C20: phone extraction from the message changes the session's phone only
\* when no phone is known: if the user context holds a phone number, a message
\* containing a different valid number leaves it unchanged.
C20_KnownPhoneKept ==
    (phone_call.done /\ phone_call.known # NULL) => phone_call.phone = phone_call.known

\* C16: once a session object's email_sent flag is true, a later call of
\* send_conversation_email on that session performs no SMTP dispatch, writes
\* no email log, leaves the session unchanged and returns True.
C16_SentFlagIdempotent ==
    /\ \A r \in Slots :
          (req[r].kind = "end" /\ req[r].send_call = "flag_set") =>
              /\ req[r].dispatched = 0 /\ req[r].smtp_log = <<>>
              /\ req[r].logged = 0 /\ ~req[r].send_changed
              /\ req[r].email_result
    /\ (last_done.done /\ last_done.kind = "end" /\ last_done.send_call = "flag_set") =>
          /\ last_done.dispatched = 0 /\ last_done.smtp_log = <<>>
          /\ last_done.logged = 0 /\ ~last_done.send_changed
          /\ last_done.outcome = "error" \/ last_done.email_sent

C16_Witness ==
    /\ last_done.done /\ last_done.kind = "end" /\ last_done.send_call = "flag_set"
    /\ last_done.outcome = "ended" /\ last_done.email_sent

ChatResponses == {"answer", "fallback", "apology"}

\* C17: every ChatResponse the chat handler returns has a response text of at
\* least 10 characters: when the agent's cleaned text is still shorter than
\* 10 characters after the retry, the brand's canned fallback message is
\* returned instead.
C17_ResponseAtLeastTen ==
    (last_done.done /\ last_done.kind = "chat" /\ last_done.outcome \in ChatResponses) =>
        /\ last_done.response >= 10
        /\ (last_done.outcome # "apology" /\ last_done.response_text < 10) =>
              last_done.response = fallback_response(last_done.brand)
        /\ (last_done.outcome # "apology" /\ last_done.response_text >= 10) =>
              last_done.response = last_done.response_text

C17_Witness ==
    /\ last_done.done /\ last_done.kind = "chat" /\ last_done.outcome = "fallback"
    /\ last_done.retried_short /\ last_done.response_text = 9
    /\ last_done.response = fallback_response(last_done.brand)

\* C18: a chat request invokes the agent at most twice; the second invocation
\* happens only if the first raised or produced a cleaned text shorter than
\* 10 characters; a short response on the second invocation is accepted
\* without a further invocation.
C18_AtMostTwoAgentCalls ==
    /\ \A r \in Slots :
          /\ req[r].agent_calls <= 2
          /\ req[r].agent_calls = 2 => req[r].first_result \in {"raise", "short"}
    /\ last_done.done =>
          /\ last_done.agent_calls <= 2
          /\ last_done.agent_calls = 2 => last_done.first_result \in {"raise", "short"}

\* The messages the SMTP server accepted for session id s, over every session
\* object that carried the id.
Dispatches(s) ==
    SumSeq([o \in 1..Len(heap) |-> IF heap[o].session_id = s THEN smtp_sent[o] ELSE 0])

Quiescent == InFlight = {} /\ tasks = EmptyBag

\* C21: every successful dispatch by send_conversation_email is followed by
\* exactly one email_logs insert for that session, and no email_logs row is
\* inserted for a session without a successful dispatch: the rows of a
\* session never outnumber its dispatches, and equal them once the handlers
\* and the detached tasks have run.
C21_DispatchLoggedOnce ==
    \A s \in SessionIds :
        /\ email_logs[s] <= Dispatches(s)
        /\ Quiescent => email_logs[s] = Dispatches(s)

\* The awaits of chat's critical path: create_session and the two
\* add_message_with_cost calls.
CriticalWrites == {"gs_create", "msg_user", "msg_asst"}

\* C22: a persistence failure on the critical path of a chat request (creating
\* the session row, appending the user or the assistant message) is
\* propagated and the request ends with the apology, not with a normal answer.
C22_CriticalFailureYieldsApology ==
    (last_done.done /\ last_done.kind = "chat"
     /\ last_done.faults \cap CriticalWrites # {}) =>
        last_done.outcome = "apology"

\* C23: after a session has been torn down with its email sent, a later chat
\* request carrying the same session id followed by another end-session
\* request does not dispatch a second email for that session.
C23_NoSecondEmailAfterRehydration ==
    \A s \in SessionIds : Dispatches(s) <= 1

UserIds == {sessions[s].user_id : s \in {t \in SessionIds : ~sessions[t].absent}} \ {NoId}
BrandIds == {sessions[s].brand_id : s \in {t \in SessionIds : ~sessions[t].absent}} \ {NoId}

\* The ended sessions of user u with brand b.
EndedSessions(u, b) ==
    {s \in SessionIds : /\ ~sessions[s].absent /\ sessions[s].status = "ended"
                        /\ sessions[s].user_id = u /\ sessions[s].brand_id = b}

total_sessions(u, b) ==
    IF <<u, b>> \in DOMAIN user_brand_interactions
    THEN user_brand_interactions[<<u, b>>] ELSE 0

\* C24: every end-session request that marks a session ended, for a session
\* linked to a user and a brand, upserts the (user, brand) aggregate exactly
\* once: once the handlers and the detached tasks have run, total_sessions of
\* (user, brand) is the number of ended sessions of that user with that brand.
C24_InteractionCountsEndedSessions ==
    Quiescent =>
        \A u \in UserIds, b \in BrandIds :
            total_sessions(u, b) = Cardinality(EndedSessions(u, b))

\* C25: an end-session request for a live session whose conversation history
\* has fewer than 3 items dispatches no email, marks the session row ended
\* with email_sent false, removes the session from active_sessions and
\* returns email_sent false.
C25_ShortSessionEndsWithoutEmail ==
    (last_done.done /\ last_done.kind = "end" /\ last_done.live_at_start
     /\ last_done.hist_at_start < 3) =>
        /\ last_done.dispatched = 0 /\ last_done.smtp_log = <<>>
        /\ last_done.row.status = "ended" /\ ~last_done.row.email_sent
        /\ ~last_done.in_registry
        /\ ~last_done.email_sent

C25_Witness ==
    /\ last_done.done /\ last_done.kind = "end" /\ last_done.live_at_start
    /\ last_done.hist_at_start \in 1..2 /\ last_done.outcome = "insufficient"
    /\ last_done.row.status = "ended" /\ ~last_done.in_registry

(***************************************************************************)
(* C26                                                                     *)
(***************************************************************************)
\* What a line of the text is, read off the line as it was handed in.
LineKind(line) ==
    LET s == strip(line)
    IN  IF startswith(s, <<"-", " ">>) \/ startswith(s, <<"*", " ">>) THEN "ul"
        ELSE IF ol_marker(s) > 0 THEN "ol"
        ELSE IF s = <<>> THEN "blank"
        ELSE "p"

ListTags == {"ul", "ol"}

\* The list that is open after the first k lines of the output.
OpenList(html, k) ==
    LET marks == {j \in 1..k : html[j].tag \in ListTags \cup {"/ul", "/ol"}}
    IN  IF marks = {} THEN "none"
        ELSE LET j == CHOOSE m \in marks : \A n \in marks : n <= m
             IN  IF html[j].tag \in ListTags THEN html[j].tag ELSE "none"

\* The positions of the list items and paragraphs of the output, in order.
ContentAt(html) ==
    SelectSeq([k \in 1..Len(html) |-> k], LAMBDA k : html[k].tag \in {"li", "p"})

NonBlankLines(text) == SelectSeq(text, LAMBDA line : LineKind(line) # "blank")

\* Every list is opened when none is open, closed when it is the open one,
\* and none is open before a line outside a list or at the end.
ListsBalanced(html) ==
    /\ \A k \in 1..Len(html) :
          LET open == OpenList(html, k - 1)
          IN  /\ html[k].tag \in ListTags => open = "none"
              /\ html[k].tag \in {"/ul", "/ol"} => html[k].tag = "/" \o open
              /\ html[k].tag \in {"p", "br"} => open = "none"
              /\ html[k].tag = "li" => open \in ListTags
    /\ OpenList(html, Len(html)) = "none"

\* A run of lines of one list stays in one list: a list is never closed only
\* to be opened again.
RunsUnbroken(html) ==
    \A k \in 1..(Len(html) - 1) :
        html[k].tag \in {"/ul", "/ol"} => html[k + 1].tag # SubSeq(html[k].tag, 2, 3)

\* The items and paragraphs are those of the lines that are not blank, in order.
LinesInOrder(text, html) ==
    LET at == ContentAt(html)
        lines == NonBlankLines(text)
    IN  /\ Len(at) = Len(lines)
        /\ \A i \in 1..Len(lines) :
              IF LineKind(lines[i]) = "p" THEN html[at[i]].tag = "p"
              ELSE /\ html[at[i]].tag = "li"
                   /\ OpenList(html, at[i]) = LineKind(lines[i])

ExampleHtml ==
    <<[tag |-> "p", text |-> <<"<strong>", "x", "</strong>", " ", "a", "n", "d">>],
      [tag |-> "ul"],
      [tag |-> "li", text |-> <<"a">>],
      [tag |-> "li", text |-> <<"b">>],
      [tag |-> "/ul"]>>

\* C26: format_markdown_to_html emits, for each line in order, a list item
\* inside an open list of the line's type or a paragraph for any other line
\* that is not blank; an open list is closed before a line outside a list,
\* before a list of the other type and at the end; the example text gives a
\* paragraph with bold x and then one <ul> of exactly two items.
C26_MarkdownListsClosed ==
    md_html # NoHtml =>
        /\ LinesInOrder(md_text, md_html)
        /\ ListsBalanced(md_html)
        /\ RunsUnbroken(md_html)
        /\ md_text = ExampleText =>
              SelectSeq(md_html, LAMBDA h : h.tag # "br") = ExampleHtml

C26_Witness ==
    /\ md_text = ExampleText
    /\ md_html # NoHtml
    /\ Len(md_html) = 6

(***************************************************************************)
(* C27                                                                     *)
(***************************************************************************)
\* C27: a chat request creates at most one session, the apology included,
\* and the session_id it returns is that of the session whose history took
\* the user's turn.
C27_OneSessionPerChat ==
    (last_done.done /\ last_done.kind = "chat" /\ last_done.outcome # "error500") =>
        /\ last_done.created <= 1
        /\ last_done.turn_sid # 0 => last_done.session_id = last_done.turn_sid

(***************************************************************************)
(* C28                                                                     *)
(***************************************************************************)
\* C28: the email_sent flag of a session row is monotonic: once it is stored
\* true, no later request stores it false.
C28_EmailSentMonotonic ==
    [][\A s \in SessionIds :
          (~sessions[s].absent /\ sessions[s].email_sent) =>
              (~sessions'[s].absent /\ sessions'[s].email_sent)]_vars

(***************************************************************************)
(* C29                                                                     *)
(***************************************************************************)
\* C29: a chat request stores at most one user message row and at most one
\* assistant message row and extends the conversation history with the
\* agent's items at most once, whatever fails in its two attempts.
C29_OneTurnPerChat ==
    /\ \A r \in Slots : req[r].extends <= 1 /\ req[r].user_rows <= 1
    /\ (last_done.done /\ last_done.kind = "chat") =>
          /\ last_done.extends <= 1
          /\ last_done.user_rows <= 1
          /\ last_done.asst_rows <= 1

(***************************************************************************)
(* C30                                                                     *)
(***************************************************************************)
\* The agent of the brand with the given id in the brands table.
BrandAgent(brand_id) == IF brand_id = 2 THEN "whitedigital_agent" ELSE "gbp_agent"

\* C30: every agent invocation made for a session uses the agent of the brand
\* the session was created under, and the brand key of a session object
\* denotes the brand of its brand_id, whatever brand later requests name.
C30_AgentOfSessionBrand ==
    /\ \A r \in Slots :
          (req[r].kind = "chat" /\ req[r].agent # "none" /\ req[r].turn_sid # 0) =>
              req[r].agent = BrandAgent(sessions[req[r].turn_sid].brand_id)
    /\ \A o \in 1..Len(heap) : get_brand_by_key(heap[o].brand) = heap[o].brand_id
====
